---- MODULE Spec2Model ----
(***************************************************************************)
(* Model of the tts-bot voice session scheduler (cogs/tts.py), its         *)
(* utterance queue and worker, and the pure helpers the scheduler and the  *)
(* TTS pipeline rely on (utils/queue_utils.py, utils/tts_pipeline.py).     *)
(*                                                                         *)
(* One tenant (guild) is modelled.  The asyncio event loop is cooperative: *)
(* every action below is the code that runs between two awaits.            *)
(***************************************************************************)
EXTENDS Integers, Sequences, FiniteSets, TLC

\* ------------------------------------------------------------------ bounds
Channels == {1, 2}           \* voice channel ids of the guild
Tasks == {"health", "req", "evt", "evt2", "evt3"}
                             \* the health loop, one in-flight request
                             \* (chat auto-read, /tts, /leave, POST /api/tts)
                             \* and one in-flight voice-state event handler
                             \* (evt), or three of them where the members
                             \* are modelled
EvtTasks == {"evt", "evt2", "evt3"}
AloneTasks == {"evt", "evt2"}
SpeakChannels == {1}         \* where the speakers of SpecWorker sit
MaxCooldowns == 1            \* the clock runs for this many connect cooldowns
MaxEnq == 3                  \* utterances enqueued in one behaviour
MaxClients == 2              \* voice client objects the platform creates
MaxWorkers == 2              \* worker tasks created in one behaviour
MaxCalls == 4                \* enqueue_with_drop calls on one bounded queue
MaxIdLen == 2                \* atoms in a requested voice id
MaxMsgLen == 4               \* bytes of audio in a provider response
Callers == {"a", "b"}        \* coroutines inside CircuitBreaker.execute
MaxBreakerCalls == 7         \* calls of one breaker that get to run func
MaxTicks == 3                \* steps of time.monotonic() in one behaviour
ClockStep == 30              \* seconds in one step of time.monotonic()
Users == {"u1", "u2"}        \* rows of discord_users
MaxChanges == 1              \* changes of the tenant's default voice
Members == {"m1", "m2"}      \* non-bot members of the guild
AutoJoiners == {"m1"}        \* members whose auto_join preference is on
MaxEvents == 4               \* voice-state events of members in one behaviour
MaxAloneEvents == 3          \* the same, where two handlers are modelled
MaxHealthEvents == 2         \* the same, where the health loop is modelled
Subs == {"s1", "s2"}         \* log stream subscribers
MaxAppends == 5              \* log lines appended in one behaviour
MaxLines == 3                \* max_lines of the ring (1000 by default)
MaxQueue == 2                \* max_queue of a subscriber (200 by default)
Threads == {"t1", "t2"}      \* threads that log
TailLines == 2               \* tail of subscribe (500 by default)
MaxFrames == 3               \* text frames a /ws/tts client sends
MaxChunks == 2               \* audio chunks of one streamed job
MaxGets == 5                 \* get_tts_stream calls that ask for voice v
MaxStreams == 2              \* streams of voice v open at one time
MaxVoiceTicks == 3           \* steps of the clock of the voice cooldown
VoiceStep == 150             \* seconds in one such step
SettingsCallers == {"x", "y", "z"}   \* concurrent callers of the store
MaxSettingsCalls == 3        \* get and update calls in one behaviour
MaxTtsCalls == 2             \* get_tts_stream calls in one behaviour
MaxTtsTicks == 2             \* steps of the clock of get_tts_stream
TtsStep == 30                \* seconds in one such step
StreamChunks == 2            \* chunks of one provider response
MaxChunkLen == 2             \* decoded bytes of one chunk
ReadSize == 2                \* the size argument of QueueStream.read
MaxMessages == 3             \* chat messages auto-read in one behaviour
MaxLeaves == 1               \* disconnects in such a behaviour
GuildChannels == 3           \* voice channels of the guild of POST /api/tts
MaxAllowed == 2              \* entries of an allowed_voice_ids list sent

\* ------------------------------------------------------- program constants
CONNECT_COOLDOWN == 5        \* tts.py:608  now - last_connect_attempt < 5.0
QUEUE_MAXSIZE == 2           \* config.py:47 QUEUE_MAXSIZE, read from the
                             \* environment (default 100); this model runs
                             \* the configuration QUEUE_MAXSIZE=2
NoneItem == 0                \* tts.py:412  the None sentinel put by stop_worker
PREFIX_LIMIT == 65536        \* tts_pipeline.py:180  prefix_limit = 64 * 1024

MaxTime == 1 + MaxCooldowns * CONNECT_COOLDOWN   \* clock values 1..MaxTime

VARIABLES
    state,          \* GuildState fields other than queue and connect_lock
    queue,          \* GuildState.queue: asyncio.Queue contents, head first
    connect_lock,   \* GuildState.connect_lock: asyncio.Lock
    workers,        \* every worker task ever created, by creation order
    guild_vc,       \* guild.voice_client: the platform's registered client
    clients,        \* every discord.VoiceClient object ever created
    now,            \* time.time(), in seconds
    tasks,          \* position of each coroutine of Tasks
    botLeftEvt,     \* an undelivered voice-state event "the bot left voice"
    nEnq,           \* history: number of QueueItems put so far
    sinkLog,        \* history: items handed to voice_client.play, in order
    skipped,        \* history: items dequeued and not handed to the sink
    bq,             \* a bounded asyncio.Queue and the last enqueue_with_drop
    voice,          \* one call of _effective_voice_id: arguments and result
    dec,            \* one run of _decode_tiktok_json_base64_stream
    brk,            \* one CircuitBreaker, its callers and time.monotonic()
    mig,            \* user voice preferences: the database, the cache, a default-voice change
    vs,             \* where the members are, and each on_voice_state_update in flight
    lb,             \* the log buffer and its subscribers
    wst,            \* a /ws/tts connection and its jobs
    fv,             \* failed_voices[v] and the streams open for voice v
    gs,             \* the guild settings store of one guild and its callers
    gt,             \* get_tts_stream: the breakers, the voice status and one call
    qs,             \* a QueueStream, its producer task, its caller and its reader
    ar,             \* on_message: the handlers of chat messages and last_speaker_id
    tc,             \* POST /api/tts: the guild's voice channels and one request
    ut              \* history: the channel the session was attached to at each put

sessionVars == <<state, queue, connect_lock, workers, guild_vc, clients, now,
                 tasks, botLeftEvt, nEnq, sinkLog, skipped>>

\* the state of the computations modelled apart from the session, still
\* while the session runs
pureVars == <<bq, voice, dec, brk, mig, vs, lb, wst, fv, gs, gt, qs, ar, tc, ut>>

\* ... but the history of the puts
computations == <<bq, voice, dec, brk, mig, vs, lb, wst, fv, gs, gt, qs, ar, tc>>

vars == <<sessionVars, pureVars>>

\* ------------------------------------------------------------ GuildState
InitState ==
    [voice_client |-> 0, voice_channel_id |-> 0, last_voice_channel_id |-> 0,
     worker |-> 0, last_speaker_id |-> 0, last_connect_attempt |-> 0]

IdleTask ==
    [pc |-> "idle", op |-> "none", ch |-> 0, reason |-> "none",
     ret |-> "none", ref |-> 0]

\* vc.is_connected() of a client object
IsConnected(v) == v # 0 /\ clients[v].conn

\* state.voice_client and state.voice_client.is_connected() and .channel
Attached == IsConnected(state.voice_client)

AttachedChannel == IF Attached THEN clients[state.voice_client].chan ELSE 0

\* guild.voice_client and guild.voice_client.is_connected() and .channel
GuildLive == IsConnected(guild_vc)

WorkerAlive(w) == w # 0 /\ workers[w].pc \notin {"done", "crashed"}


\* ------------------------------------------------------------ connect_lock
\* asyncio.Lock.acquire returns at once only when the lock is free and no
\* earlier waiter is queued; waiters are woken in FIFO order.
CanAcquireNoCheck(p) ==
    connect_lock.waiters = <<>> \/ Head(connect_lock.waiters) = p

CanAcquire(p) ==
    /\ ~connect_lock.locked
    /\ connect_lock.waiters = <<>> \/ Head(connect_lock.waiters) = p

\* the waiters left once p holds the lock
WaitersAfter(p) ==
    IF connect_lock.waiters # <<>> /\ Head(connect_lock.waiters) = p
    THEN Tail(connect_lock.waiters) ELSE connect_lock.waiters

\* pcs at which a task is suspended inside "async with state.connect_lock"
InLock == {"ec_conn", "ec_disc", "ec_sleep", "dc_vcdisc", "dc_stop"}

\* -------------------------------------------------------------- the worker
\* ensure_worker: a new worker task unless state.worker is still running
EnsureWorkerAlways(st) ==
    [state |-> [st EXCEPT !.worker = Len(workers) + 1],
     workers |-> Append(workers, [pc |-> "idle", item |-> 0, vc |-> 0])]

EnsureWorker(st) ==
    IF WorkerAlive(st.worker)
    THEN [state |-> st, workers |-> workers]
    ELSE [state |-> [st EXCEPT !.worker = Len(workers) + 1],
          workers |-> Append(workers, [pc |-> "idle", item |-> 0, vc |-> 0])]

\* the model creates at most MaxWorkers worker tasks
CanSpawn == WorkerAlive(state.worker) \/ Len(workers) < MaxWorkers

\* -------------------------------------------------------- ensure_connected
Adopt(st, c) ==
    [st EXCEPT !.voice_client = guild_vc, !.voice_channel_id = c,
               !.last_voice_channel_id = c]

\* a failure path that forgets the client and keeps the channel lock
ClearedClient(st) == [st EXCEPT !.voice_client = 0]

\* state.voice_client = None; state.voice_channel_id = None (tts.py:655-656,
\* 681-682, 693-694, 703-704)
Cleared(st) == [st EXCEPT !.voice_client = 0, !.voice_channel_id = 0]

\* the comparison of the cooldown test reversed
CooldownElapsed ==
    /\ state.last_connect_attempt # 0
    /\ now - state.last_connect_attempt > CONNECT_COOLDOWN

\* state.last_connect_attempt and now - state.last_connect_attempt < 5.0
CooldownActive ==
    /\ state.last_connect_attempt # 0
    /\ now - state.last_connect_attempt < CONNECT_COOLDOWN

Outcome(st, pc, ret, new) ==
    [state |-> st, pc |-> pc, ret |-> ret, newClient |-> new]

\* ensure_connected when the session's own voice client is not connected:
\* adopt a live client of the guild, or respect the cooldown, or record the
\* attempt, lock the channel and connect.
\* (The branch at tts.py:635, a connected guild.voice_client after "Already
\* connected", cannot be taken: no await separates it from the test at 599.)
ConnectDetached(c) ==
    IF GuildLive THEN
        IF clients[guild_vc].chan = c
        THEN Outcome(Adopt(state, c), "ec_ret", "ok", FALSE)
        ELSE Outcome(state, "ec_ret", "locked", FALSE)
    ELSE IF CooldownActive THEN
        Outcome(state, "ec_ret", "cooldown", FALSE)
    ELSE
        LET st1 == [state EXCEPT !.last_connect_attempt = now,
                                 !.voice_channel_id = c,
                                 !.last_voice_channel_id = c,
                                 !.last_speaker_id = 0]
        IN  IF guild_vc = 0 THEN Outcome(st1, "ec_conn", "none", TRUE)
            ELSE IF st1.voice_client # 0
                 THEN Outcome(st1, "ec_disc", "none", FALSE)
                 ELSE Outcome(Cleared(st1), "ec_sleep", "none", FALSE)

\* an ensure_connected that follows the caller: attached elsewhere, it drops
\* the connection and goes to the requested channel
EnsureConnectedMove(c) ==
    IF Attached THEN
        IF AttachedChannel = c
        THEN Outcome(state, "ec_ret", "ok", FALSE)
        ELSE Outcome([state EXCEPT !.voice_channel_id = c,
                                   !.last_voice_channel_id = c],
                     "ec_disc", "none", FALSE)
    ELSE ConnectDetached(c)

\* The code of ensure_connected from the acquisition of connect_lock to its
\* first await or return.  ret: "ok" is True; "locked", "cooldown" and
\* "failed" are the three ways of returning False.  newClient: the platform's
\* Connectable.connect registered a new VoiceClient and is now connecting.
EnsureConnectedBody(c) ==
    IF Attached THEN
        Outcome(state, "ec_ret",
                IF AttachedChannel = c THEN "ok" ELSE "locked", FALSE)
    ELSE ConnectDetached(c)

\* task record r of task p runs the body, the lock being free
EC_Run(p, r) ==
    LET o == EnsureConnectedBody(r.ch) IN
    /\ o.newClient => Len(clients) < MaxClients
    /\ state' = o.state
    /\ tasks' = [tasks EXCEPT ![p] =
                    [r EXCEPT !.pc = o.pc, !.ret = o.ret,
                              !.ref = IF o.pc = "ec_disc"
                                      THEN state.voice_client ELSE 0]]
    /\ connect_lock' = [locked |-> o.pc # "ec_ret", waiters |-> WaitersAfter(p)]
    /\ IF o.newClient
       THEN /\ clients' = Append(clients, [conn |-> FALSE, chan |-> r.ch])
            /\ guild_vc' = Len(clients) + 1
       ELSE UNCHANGED <<clients, guild_vc>>
    /\ UNCHANGED <<queue, workers, now, botLeftEvt, nEnq, sinkLog, skipped>>

\* "async with state.connect_lock" of ensure_connected, called with record r
EC_Enter(p, r) ==
    IF CanAcquire(p)
    THEN EC_Run(p, r)
    ELSE /\ tasks' = [tasks EXCEPT ![p] = [r EXCEPT !.pc = "ec_wait"]]
         /\ connect_lock' = [connect_lock EXCEPT
                                !.waiters = Append(@, p)]
         /\ UNCHANGED <<state, queue, workers, guild_vc, clients, now,
                        botLeftEvt, nEnq, sinkLog, skipped>>

\* a queued caller of ensure_connected gets the lock
EC_Acquire(p) ==
    /\ tasks[p].pc = "ec_wait"
    /\ CanAcquire(p)
    /\ EC_Run(p, tasks[p])
    /\ UNCHANGED pureVars

Return(p, ret) == [tasks EXCEPT ![p] = [@ EXCEPT !.pc = "ec_ret", !.ret = ret]]

Unlocked == [connect_lock EXCEPT !.locked = FALSE]

\* voice_channel.connect(...) at tts.py:626 or 666 completes
EC_ConnDone(p) ==
    /\ tasks[p].pc = "ec_conn"
    /\ \/ /\ CanSpawn
          /\ LET ew == EnsureWorker([state EXCEPT !.voice_client = guild_vc])
             IN  /\ state' = ew.state
                 /\ workers' = ew.workers
          /\ clients' = [clients EXCEPT ![guild_vc].conn = TRUE]
          /\ tasks' = Return(p, "ok")
          /\ UNCHANGED guild_vc
       \/ /\ state' = Cleared(state)
          /\ \E keep \in BOOLEAN : guild_vc' = IF keep THEN guild_vc ELSE 0
          /\ tasks' = Return(p, "failed")
          /\ UNCHANGED <<workers, clients>>
    /\ connect_lock' = Unlocked
    /\ UNCHANGED <<queue, now, botLeftEvt, nEnq, sinkLog, skipped>>
    /\ UNCHANGED pureVars

\* the platform tears voice client v down (VoiceClient.disconnect/cleanup)
Teardown(v) == [clients EXCEPT ![v].conn = FALSE]

\* "await state.voice_client.disconnect()" at tts.py:653 returns (its errors
\* are swallowed), then state is cleared and asyncio.sleep(0.5) begins
EC_DiscDone(p) ==
    /\ tasks[p].pc = "ec_disc"
    /\ LET v == tasks[p].ref IN
       IF IsConnected(v)
       THEN /\ clients' = Teardown(v)
            /\ guild_vc' = IF guild_vc = v THEN 0 ELSE guild_vc
            /\ botLeftEvt' = TRUE
       ELSE /\ \E clean \in BOOLEAN :
                 guild_vc' = IF clean /\ guild_vc = v THEN 0 ELSE guild_vc
            /\ UNCHANGED <<clients, botLeftEvt>>
    /\ state' = Cleared(state)
    /\ tasks' = [tasks EXCEPT ![p] = [@ EXCEPT !.pc = "ec_sleep", !.ref = 0]]
    /\ UNCHANGED <<queue, connect_lock, workers, now, nEnq, sinkLog, skipped>>
    /\ UNCHANGED pureVars

\* asyncio.sleep(0.5) at tts.py:658 is over: adopt, or connect once more
EC_SleepDone(p) ==
    /\ tasks[p].pc = "ec_sleep"
    /\ LET c == tasks[p].ch IN
       IF GuildLive /\ clients[guild_vc].chan = c THEN
            /\ state' = Adopt(state, c)
            /\ tasks' = Return(p, "ok")
            /\ connect_lock' = Unlocked
            /\ UNCHANGED <<clients, guild_vc>>
       ELSE IF guild_vc # 0 THEN
            /\ state' = Cleared(state)
            /\ tasks' = Return(p, "failed")
            /\ connect_lock' = Unlocked
            /\ UNCHANGED <<clients, guild_vc>>
       ELSE /\ Len(clients) < MaxClients
            /\ clients' = Append(clients, [conn |-> FALSE, chan |-> c])
            /\ guild_vc' = Len(clients) + 1
            /\ tasks' = [tasks EXCEPT ![p].pc = "ec_conn"]
            /\ UNCHANGED <<state, connect_lock>>
    /\ UNCHANGED <<queue, workers, now, botLeftEvt, nEnq, sinkLog, skipped>>
    /\ UNCHANGED pureVars


\* -------------------------------------------------------------- disconnect
\* tts.py:715-720 once the voice client is disconnected: clear the session,
\* then stop_worker puts the sentinel and awaits the worker task
DC_Clear(p, r, cl) ==
    LET w == state.worker IN
    /\ state' = [state EXCEPT
                    !.voice_client = 0,
                    !.voice_channel_id = 0,
                    !.last_voice_channel_id =
                        IF r.reason \in {"slash_leave", "alone"} THEN 0 ELSE @,
                    !.last_speaker_id = 0]
    /\ IF WorkerAlive(w)
       THEN /\ queue' = Append(queue, NoneItem)
            /\ tasks' = [tasks EXCEPT ![p] = [r EXCEPT !.pc = "dc_stop",
                                                       !.ref = w]]
            /\ connect_lock' = [locked |-> TRUE, waiters |-> cl.waiters]
       ELSE /\ queue' = queue
            /\ tasks' = [tasks EXCEPT ![p] = [r EXCEPT !.pc = "dc_ret",
                                                       !.ret = "ok",
                                                       !.ref = 0]]
            /\ connect_lock' = [locked |-> FALSE, waiters |-> cl.waiters]

\* disconnect from the acquisition of connect_lock to its first await/return
DC_Run(p, r) ==
    IF Attached
    THEN /\ tasks' = [tasks EXCEPT ![p] = [r EXCEPT !.pc = "dc_vcdisc",
                                                    !.ref = state.voice_client]]
         /\ connect_lock' = [locked |-> TRUE, waiters |-> WaitersAfter(p)]
         /\ UNCHANGED <<state, queue, workers, guild_vc, clients, now,
                        botLeftEvt, nEnq, sinkLog, skipped>>
    ELSE /\ DC_Clear(p, r, [waiters |-> WaitersAfter(p)])
         /\ UNCHANGED <<workers, guild_vc, clients, now, botLeftEvt, nEnq,
                        sinkLog, skipped>>

\* "async with state.connect_lock" of disconnect, called with record r
DC_Enter(p, r) ==
    IF CanAcquire(p)
    THEN DC_Run(p, r)
    ELSE /\ tasks' = [tasks EXCEPT ![p] = [r EXCEPT !.pc = "dc_wait"]]
         /\ connect_lock' = [connect_lock EXCEPT !.waiters = Append(@, p)]
         /\ UNCHANGED <<state, queue, workers, guild_vc, clients, now,
                        botLeftEvt, nEnq, sinkLog, skipped>>

DC_Acquire(p) ==
    /\ tasks[p].pc = "dc_wait"
    /\ CanAcquire(p)
    /\ DC_Run(p, tasks[p])
    /\ UNCHANGED pureVars

\* "await state.voice_client.disconnect()" at tts.py:714 returns
DC_VcDiscDone(p) ==
    /\ tasks[p].pc = "dc_vcdisc"
    /\ LET v == tasks[p].ref IN
       /\ clients' = Teardown(v)
       /\ guild_vc' = IF guild_vc = v THEN 0 ELSE guild_vc
       /\ botLeftEvt' = (botLeftEvt \/ IsConnected(v))
    /\ DC_Clear(p, tasks[p], connect_lock)
    /\ UNCHANGED <<workers, now, nEnq, sinkLog, skipped>>
    /\ UNCHANGED pureVars

\* "await state.worker" at tts.py:413 returns, or re-raises what killed the
\* worker task; either way "async with" releases the lock
DC_StopDone(p) ==
    /\ tasks[p].pc = "dc_stop"
    /\ ~WorkerAlive(tasks[p].ref)
    /\ tasks' = [tasks EXCEPT ![p] =
                    [@ EXCEPT !.pc = "dc_ret", !.ref = 0,
                              !.ret = IF workers[tasks[p].ref].pc = "crashed"
                                      THEN "raised" ELSE "ok"]]
    /\ connect_lock' = Unlocked
    /\ UNCHANGED <<state, queue, workers, guild_vc, clients, now, botLeftEvt,
                   nEnq, sinkLog, skipped>>
    /\ UNCHANGED pureVars


\* -------------------------------------------------------- queue and worker
\* state.queue.put(item) on the queue built at tts.py:31, asyncio.Queue()
Put(q, item) == Append(q, item)

\* no history of the puts is kept
NotHeard == ut = [on |-> FALSE, at |-> <<>>]

\* the history of the puts, where one is kept: item n was put while the
\* session was attached to channel ch (0: to none)
EnqueuedWhile(u, n, ch) ==
    IF u.on /\ n > Len(u.at) THEN [u EXCEPT !.at = Append(@, ch)] ELSE u

\* a queue that hands out the newest item first
DequeueLifo(q) == [item |-> q[Len(q)], rest |-> SubSeq(q, 1, Len(q) - 1)]

\* state.queue.get(): the oldest item
Dequeue(q) == [item |-> Head(q), rest |-> Tail(q)]

IdleWorker == [pc |-> "idle", item |-> 0, vc |-> 0]

\* worker_loop, tts.py:391-397: take an item; the sentinel ends the task, an
\* item met while not attached is skipped, any other item goes to play_tts
W_Dequeue(w) ==
    /\ workers[w].pc = "idle"
    /\ queue # <<>>
    /\ LET d == Dequeue(queue) IN
       /\ queue' = d.rest
       /\ IF d.item = NoneItem THEN
              /\ workers' = [workers EXCEPT ![w].pc = "done"]
              /\ UNCHANGED skipped
          ELSE IF ~Attached THEN
              /\ skipped' = skipped \cup {d.item}
              /\ UNCHANGED workers
          ELSE
              /\ workers' = [workers EXCEPT ![w] =
                                [pc |-> "fetch", item |-> d.item,
                                 vc |-> state.voice_client]]
              /\ UNCHANGED skipped
    /\ UNCHANGED <<state, connect_lock, guild_vc, clients, now, tasks,
                   botLeftEvt, nEnq, sinkLog>>
    /\ UNCHANGED pureVars

\* what an exception escaping play_tts does to the worker task: worker_loop
\* (tts.py:395-406) has try/finally and no except, so task_done() runs and
\* the exception ends the task
OnPlayError(w) == [workers EXCEPT ![w] = [pc |-> "crashed", item |-> 0, vc |-> 0]]

\* play_tts, tts.py:424-445, up to "await done.wait()": the text is empty
\* (return), get_tts_stream raises, voice_client.play raises (the client is
\* no longer connected, or is already playing), or playback starts
W_Fetch(w) ==
    /\ workers[w].pc = "fetch"
    /\ \/ /\ workers' = [workers EXCEPT ![w] = IdleWorker]
          /\ skipped' = skipped \cup {workers[w].item}
          /\ UNCHANGED sinkLog
       \/ /\ workers' = OnPlayError(w)
          /\ skipped' = skipped \cup {workers[w].item}
          /\ UNCHANGED sinkLog
       \/ IF \/ ~IsConnected(workers[w].vc)
             \/ \E x \in DOMAIN workers :
                    workers[x].pc = "playing" /\ workers[x].vc = workers[w].vc
          THEN /\ workers' = OnPlayError(w)
               /\ skipped' = skipped \cup {workers[w].item}
               /\ UNCHANGED sinkLog
          ELSE /\ workers' = [workers EXCEPT ![w].pc = "playing"]
               /\ sinkLog' = Append(sinkLog, workers[w].item)
               /\ UNCHANGED skipped
    /\ UNCHANGED <<state, queue, connect_lock, guild_vc, clients, now, tasks,
                   botLeftEvt, nEnq>>
    /\ UNCHANGED pureVars

\* the sink's after callback sets done (playback ended or was stopped by a
\* disconnect); producer_task is awaited, its error logged: tts.py:446-451
W_PlaybackDone(w) ==
    /\ workers[w].pc = "playing"
    /\ workers' = [workers EXCEPT ![w] = IdleWorker]
    /\ UNCHANGED <<state, queue, connect_lock, guild_vc, clients, now, tasks,
                   botLeftEvt, nEnq, sinkLog, skipped>>
    /\ UNCHANGED pureVars

\* ------------------------------------------------------- callers (handlers)
\* on_message / slash_tts / POST /api/tts: ensure_connected(c) first
StartTts(p, c) ==
    /\ p = "req"
    /\ tasks[p].pc = "idle"
    /\ EC_Enter(p, [IdleTask EXCEPT !.op = "tts", !.ch = c])
    /\ UNCHANGED pureVars

\* ... and, ensure_connected having returned True, put one QueueItem
\* (tts.py:857-858, 997; webui.py:1897, 2202).  Chat auto-read also records
\* the author in last_speaker_id.
TtsFinish(p) ==
    /\ tasks[p].pc = "ec_ret"
    /\ tasks[p].op = "tts"
    /\ tasks[p].ret = "ok"
    /\ nEnq < MaxEnq
    /\ queue' = Put(queue, nEnq + 1)
    /\ nEnq' = nEnq + 1
    /\ \E chat \in BOOLEAN :
          state' = [state EXCEPT !.last_speaker_id = IF chat THEN 1 ELSE @]
    /\ tasks' = [tasks EXCEPT ![p] = IdleTask]
    /\ UNCHANGED <<connect_lock, workers, guild_vc, clients, now, botLeftEvt,
                   sinkLog, skipped>>
    /\ ut' = EnqueuedWhile(ut, nEnq', AttachedChannel)
    /\ UNCHANGED computations

\* the three handlers that speak a text on request
RequestKinds == {"slash_tts", "on_message", "api_tts"}

\* slash_tts (tts.py:981), on_message (802), api_tts_speak (webui.py:2183):
\* the request calls ensure_connected(c) first
StartRequest(p, kind, c) ==
    /\ p = "req"
    /\ tasks[p].pc \in {"idle", "answered"}
    /\ EC_Enter(p, [IdleTask EXCEPT !.op = kind, !.ch = c])
    /\ UNCHANGED pureVars

\* "if not ok" with every failure taken for a success
RefusedNever(ret) == FALSE

\* "if not ok": ensure_connected returned False, whatever the cause
Refused(ret) == ret # "ok"

\* what the handler answers when ensure_connected returned False: the locked
\* message of /tts with state.voice_channel_id in it (tts.py:983-988),
\* nothing for chat auto-read (803-804), status 409 (webui.py:2184-2189)
RefusalOf(kind) ==
    CASE kind = "slash_tts" -> "locked_message"
      [] kind = "on_message" -> "none"
      [] kind = "api_tts" -> "409"

\* ... and when the item was put: "Queued." (tts.py:998), nothing, the
\* success body with status 200 (webui.py:2204)
AcceptanceOf(kind) ==
    CASE kind = "slash_tts" -> "queued_message"
      [] kind = "on_message" -> "none"
      [] kind = "api_tts" -> "200"

\* the rest of the handler, ensure_connected having returned: answer and
\* return when it failed; else put one QueueItem (chat auto-read records the
\* author in last_speaker_id first, tts.py:857-858) and answer.  The answer
\* is kept in the field reason, the channel named in it in the field ref.
RequestAnswer(p) ==
    /\ tasks[p].pc = "ec_ret"
    /\ tasks[p].op \in RequestKinds
    /\ LET kind == tasks[p].op IN
       IF Refused(tasks[p].ret)
       THEN /\ tasks' = [tasks EXCEPT ![p] =
                            [@ EXCEPT !.pc = "answered",
                                      !.reason = RefusalOf(kind),
                                      !.ref = state.voice_channel_id]]
            /\ UNCHANGED <<state, queue, nEnq>>
       ELSE /\ nEnq < MaxEnq
            /\ state' = [state EXCEPT !.last_speaker_id =
                                         IF kind = "on_message" THEN 1 ELSE @]
            /\ queue' = Put(queue, nEnq + 1)
            /\ nEnq' = nEnq + 1
            /\ tasks' = [tasks EXCEPT ![p] =
                            [@ EXCEPT !.pc = "answered",
                                      !.reason = AcceptanceOf(kind),
                                      !.ref = 0]]
    /\ UNCHANGED <<connect_lock, workers, guild_vc, clients, now, botLeftEvt,
                   sinkLog, skipped>>
    /\ ut' = EnqueuedWhile(ut, nEnq', AttachedChannel)
    /\ UNCHANGED computations

\* every other return of ensure_connected or disconnect ends the handler
Finish(p) ==
    /\ tasks[p].pc \in {"ec_ret", "dc_ret"}
    /\ ~(tasks[p].op = "tts" /\ tasks[p].ret = "ok")
    /\ tasks' = [tasks EXCEPT ![p] = IdleTask]
    /\ UNCHANGED <<state, queue, connect_lock, workers, guild_vc, clients, now,
                   botLeftEvt, nEnq, sinkLog, skipped>>
    /\ UNCHANGED pureVars

\* slash_leave, tts.py:960-965: disconnect(guild, "slash_leave") has returned
\* (or raised) and the command answers; the handler is over for good
LeaveFinish(p) ==
    /\ p = "req"
    /\ tasks[p].pc = "dc_ret"
    /\ tasks[p].reason = "slash_leave"
    /\ tasks' = [tasks EXCEPT ![p].pc = "left"]
    /\ UNCHANGED <<state, queue, connect_lock, workers, guild_vc, clients, now,
                   botLeftEvt, nEnq, sinkLog, skipped>>
    /\ UNCHANGED pureVars

\* slash_leave (tts.py:964); check_should_leave (734) and the auto-follow
\* move (892) of on_voice_state_update, which run while the bot is attached
StartDisconnect(p, reason) ==
    /\ tasks[p].pc = "idle"
    /\ \/ p = "req" /\ reason = "slash_leave"
       \/ p = "evt" /\ reason \in {"alone", "auto_join_move"} /\ Attached
    /\ DC_Enter(p, [IdleTask EXCEPT !.op = "leave", !.reason = reason])
    /\ UNCHANGED pureVars

\* on_voice_state_update for the bot itself, tts.py:870-873
DeliverBotLeft(p) ==
    /\ p = "evt"
    /\ tasks[p].pc = "idle"
    /\ botLeftEvt
    /\ botLeftEvt' = FALSE
    /\ LET r == [IdleTask EXCEPT !.op = "botleft", !.reason = "disconnected"]
       IN  IF CanAcquire(p)
           THEN IF Attached
                THEN /\ tasks' = [tasks EXCEPT ![p] =
                                    [r EXCEPT !.pc = "dc_vcdisc",
                                              !.ref = state.voice_client]]
                     /\ connect_lock' = [connect_lock EXCEPT !.locked = TRUE]
                     /\ UNCHANGED <<state, queue>>
                ELSE DC_Clear(p, r, connect_lock)
           ELSE /\ tasks' = [tasks EXCEPT ![p] =
                                [r EXCEPT !.pc = "dc_wait"]]
                /\ connect_lock' = [connect_lock EXCEPT
                                       !.waiters = Append(@, p)]
                /\ UNCHANGED <<state, queue>>
    /\ UNCHANGED <<workers, guild_vc, clients, now, nEnq, sinkLog, skipped>>
    /\ UNCHANGED pureVars

\* auto-follow of on_voice_state_update, tts.py:893/895: bot_channel was read
\* before "await get_user_auto_join", so the session may be in any state when
\* ensure_connected is called
StartAutoJoin(p, c) ==
    /\ p = "evt"
    /\ tasks[p].pc = "idle"
    /\ EC_Enter(p, [IdleTask EXCEPT !.op = "autojoin", !.ch = c])
    /\ UNCHANGED pureVars

\* greeting of on_voice_state_update: bot_channel is set (tts.py:876-877),
\* then the handler sleeps 2 s (932)
StartGreet(p) ==
    /\ p = "evt"
    /\ tasks[p].pc = "idle"
    /\ Attached
    /\ tasks' = [tasks EXCEPT ![p] = [IdleTask EXCEPT !.op = "greet",
                                                      !.pc = "greet_sleep"]]
    /\ UNCHANGED <<state, queue, connect_lock, workers, guild_vc, clients, now,
                   botLeftEvt, nEnq, sinkLog, skipped>>
    /\ UNCHANGED pureVars

\* tts.py:933-936: give up if no longer connected, else ensure_worker and put
GreetFinish(p) ==
    /\ tasks[p].pc = "greet_sleep"
    /\ IF ~Attached
       THEN UNCHANGED <<state, workers, queue, nEnq>>
       ELSE /\ CanSpawn
            /\ nEnq < MaxEnq
            /\ LET ew == EnsureWorker(state) IN
                  state' = ew.state /\ workers' = ew.workers
            /\ queue' = Put(queue, nEnq + 1)
            /\ nEnq' = nEnq + 1
    /\ tasks' = [tasks EXCEPT ![p] = IdleTask]
    /\ UNCHANGED <<connect_lock, guild_vc, clients, now, botLeftEvt, sinkLog,
                   skipped>>
    /\ ut' = EnqueuedWhile(ut, nEnq', AttachedChannel)
    /\ UNCHANGED computations

\* farewell of on_voice_state_update: bot_channel is set, settings are read
StartFarewell(p) ==
    /\ p = "evt"
    /\ tasks[p].pc = "idle"
    /\ Attached
    /\ tasks' = [tasks EXCEPT ![p] = [IdleTask EXCEPT !.op = "farewell",
                                                      !.pc = "farewell"]]
    /\ UNCHANGED <<state, queue, connect_lock, workers, guild_vc, clients, now,
                   botLeftEvt, nEnq, sinkLog, skipped>>
    /\ UNCHANGED pureVars

\* tts.py:949-953: ensure_worker and put, whatever the attachment
FarewellFinish(p) ==
    /\ tasks[p].pc = "farewell"
    /\ CanSpawn
    /\ nEnq < MaxEnq
    /\ LET ew == EnsureWorker(state) IN
          state' = ew.state /\ workers' = ew.workers
    /\ queue' = Put(queue, nEnq + 1)
    /\ nEnq' = nEnq + 1
    /\ tasks' = [tasks EXCEPT ![p] = IdleTask]
    /\ UNCHANGED <<connect_lock, guild_vc, clients, now, botLeftEvt, sinkLog,
                   skipped>>
    /\ ut' = EnqueuedWhile(ut, nEnq', AttachedChannel)
    /\ UNCHANGED computations

\* one pass of _voice_health_loop over the guild, tts.py:191-225; whether the
\* target channel holds a non-bot member is the platform's answer
HealthTick(p) ==
    /\ p = "health"
    /\ tasks[p].pc = "idle"
    /\ IF Attached THEN
            /\ state' = [state EXCEPT !.last_voice_channel_id = AttachedChannel]
            /\ UNCHANGED <<tasks, connect_lock, guild_vc, clients>>
       ELSE IF GuildLive THEN
            /\ state' = [state EXCEPT
                            !.voice_client = guild_vc,
                            !.last_voice_channel_id = clients[guild_vc].chan]
            /\ UNCHANGED <<tasks, connect_lock, guild_vc, clients>>
       ELSE LET target == IF state.voice_channel_id # 0
                          THEN state.voice_channel_id
                          ELSE state.last_voice_channel_id
            IN  /\ target # 0
                /\ EC_Enter(p, [IdleTask EXCEPT !.op = "health", !.ch = target])
    /\ UNCHANGED <<queue, workers, now, botLeftEvt, nEnq, sinkLog, skipped>>
    /\ UNCHANGED pureVars

\* ---------------------------------------------------- platform and clock
Connecting == \E p \in Tasks : tasks[p].pc = "ec_conn"

\* one second passes
Tick ==
    /\ now < MaxTime
    /\ now' = now + 1
    /\ UNCHANGED <<state, queue, connect_lock, workers, guild_vc, clients,
                   tasks, botLeftEvt, nEnq, sinkLog, skipped>>
    /\ UNCHANGED pureVars

\* a connect cooldown passes
TickCooldown ==
    /\ now + CONNECT_COOLDOWN <= MaxTime
    /\ now' = now + CONNECT_COOLDOWN
    /\ UNCHANGED <<state, queue, connect_lock, workers, guild_vc, clients,
                   tasks, botLeftEvt, nEnq, sinkLog, skipped>>
    /\ UNCHANGED pureVars

\* the platform removes the bot from voice (kick, channel deleted, ...)
PlatformKick ==
    /\ guild_vc # 0
    /\ ~Connecting
    /\ clients' = Teardown(guild_vc)
    /\ guild_vc' = 0
    /\ botLeftEvt' = (botLeftEvt \/ GuildLive)
    /\ UNCHANGED <<state, queue, connect_lock, workers, now, tasks, nEnq,
                   sinkLog, skipped>>
    /\ UNCHANGED pureVars

\* the voice connection drops; the client object stays registered
PlatformLost ==
    /\ GuildLive
    /\ clients' = Teardown(guild_vc)
    /\ UNCHANGED <<state, queue, connect_lock, workers, guild_vc, now, tasks,
                   botLeftEvt, nEnq, sinkLog, skipped>>
    /\ UNCHANGED pureVars

\* ... and the library reconnects it
PlatformResume ==
    /\ guild_vc # 0
    /\ ~GuildLive
    /\ ~Connecting
    /\ clients' = [clients EXCEPT ![guild_vc].conn = TRUE]
    /\ UNCHANGED <<state, queue, connect_lock, workers, guild_vc, now, tasks,
                   botLeftEvt, nEnq, sinkLog, skipped>>
    /\ UNCHANGED pureVars

\* ------------------------------------------- utils/queue_utils.py
\* asyncio.Queue(maxsize): maxsize <= 0 is unbounded.  unfinished counts the
\* puts not yet answered by task_done; pending counts the items a consumer
\* holds between get() and task_done().
QItems == {"a", "b"}
Policies == {"drop_oldest", "drop_newest", "reject"}

NewQueue(m) ==
    [maxsize |-> m, items |-> <<>>, unfinished |-> 0, pending |-> 0,
     calls |-> 0, item |-> "none", policy |-> "none",
     ret |-> [dropped |-> 0, accepted |-> FALSE, exc |-> "none"]]

\* queue.full()
QueueFull(q) == q.maxsize > 0 /\ Len(q.items) >= q.maxsize

\* a drop that takes the newest item
DropNewest(items) == SubSeq(items, 1, Len(items) - 1)

\* queue.get_nowait(): the head leaves the queue
DropOldest(items) == Tail(items)

\* await queue.put(item) on a queue with room
QPut(q, item) ==
    [q EXCEPT !.items = Append(@, item), !.unfinished = @ + 1]

\* enqueue_with_drop(queue, item, policy), queue_utils.py:5-18.  ret is the
\* returned pair; exc is "ValueError" when task_done() raises and "blocked"
\* when put() has to wait for room (no pair is returned then).
EnqueueWithDrop(q, item, policy) ==
    LET call == [q EXCEPT !.calls = @ + 1, !.item = item, !.policy = policy]
        Ret(d, a) == [dropped |-> d, accepted |-> a, exc |-> "none"]
        Exc(e) == [dropped |-> 0, accepted |-> FALSE, exc |-> e]
    IN  IF ~QueueFull(q) THEN
            [QPut(call, item) EXCEPT !.ret = Ret(0, TRUE)]
        ELSE IF policy # "drop_oldest" THEN
            [call EXCEPT !.ret = Ret(0, FALSE)]
        ELSE IF q.items = <<>> THEN            \* QueueEmpty: pass, then put
            [call EXCEPT !.ret = Exc("blocked")]
        ELSE LET got == [call EXCEPT !.items = DropOldest(@)] IN
            IF q.unfinished = 0 THEN [got EXCEPT !.ret = Exc("ValueError")]
            ELSE LET done == [got EXCEPT !.unfinished = @ - 1] IN
                IF QueueFull(done) THEN [done EXCEPT !.ret = Exc("blocked")]
                ELSE [QPut(done, item) EXCEPT !.ret = Ret(1, TRUE)]

\* a producer calls enqueue_with_drop
QEnqueue(item, policy) ==
    /\ bq.calls < MaxCalls
    /\ bq.ret.exc = "none"
    /\ bq' = EnqueueWithDrop(bq, item, policy)
    /\ UNCHANGED <<sessionVars, voice, dec, brk, mig, vs, lb, wst, fv, gs, gt, qs, ar, tc, ut>>

\* a consumer takes the head: item = await queue.get()
QGet ==
    /\ bq.items # <<>>
    /\ bq' = [bq EXCEPT !.items = Tail(@), !.pending = @ + 1]
    /\ UNCHANGED <<sessionVars, voice, dec, brk, mig, vs, lb, wst, fv, gs, gt, qs, ar, tc, ut>>

\* ... and acknowledges it: queue.task_done()
QTaskDone ==
    /\ bq.pending > 0
    /\ bq' = [bq EXCEPT !.pending = @ - 1, !.unfinished = @ - 1]
    /\ UNCHANGED <<sessionVars, voice, dec, brk, mig, vs, lb, wst, fv, gs, gt, qs, ar, tc, ut>>

\* ------------------------------- cogs/tts.py: effective voice resolution
\* A string is a sequence of atoms: the blank, or a run of non-blank
\* characters.  An optional value (None or a string) is a sequence of at
\* most one string.
SP == " "

Atoms == {SP, "en_us_001", "en_us_ghostface", "en_us_c3po"}

None == <<>>

Some(str) == <<str>>

\* config.py:5
FALLBACK_VOICE == <<"en_us_001">>

\* config.py:116-117, the ids of ALL_VOICES in catalog order
ALL_VOICE_IDS == << <<"en_us_ghostface">>, <<"en_us_c3po">>, <<"en_us_001">> >>

\* Python truth of an optional string: neither None nor ""
Truthy(o) == o # None /\ o[1] # <<>>

RECURSIVE LStrip(_)
LStrip(str) == IF str # <<>> /\ Head(str) = SP THEN LStrip(Tail(str)) ELSE str

RECURSIVE RStrip(_)
RStrip(str) ==
    IF str # <<>> /\ str[Len(str)] = SP
    THEN RStrip(SubSeq(str, 1, Len(str) - 1)) ELSE str

\* str.strip()
Strip(str) == RStrip(LStrip(str))

\* str(x or FALLBACK_VOICE).strip() or FALLBACK_VOICE
OrFallback(o) ==
    LET stripped == Strip(IF Truthy(o) THEN o[1] ELSE FALLBACK_VOICE)
    IN  IF stripped # <<>> THEN stripped ELSE FALLBACK_VOICE

bot_default_voice(settings) == OrFallback(settings.default_voice_id)

RECURSIVE FirstOther(_, _)
FirstOther(ids, default_voice) ==
    IF ids = <<>> THEN default_voice
    ELSE IF Head(ids) # default_voice THEN Head(ids)
    ELSE FirstOther(Tail(ids), default_voice)

\* a user default that may be the bot's default voice
user_default_any(settings) == OrFallback(settings.fallback_voice)

\* _user_default_voice, tts.py:259-267
user_default_voice(settings) ==
    LET default_voice == bot_default_voice(settings)
        fallback_voice == OrFallback(settings.fallback_voice)
    IN  IF fallback_voice # <<>> /\ fallback_voice # default_voice
        THEN fallback_voice
        ELSE FirstOther(ALL_VOICE_IDS, default_voice)

\* _allowed_voice_ids: None when unrestricted, else the stripped non-empty ids
allowed_voice_ids(settings) ==
    [restricted |-> settings.restrict_voices,
     ids |-> IF settings.restrict_voices
             THEN {Strip(item) : item \in settings.allowed_voice_ids} \ {<<>>}
             ELSE {}]

\* _effective_voice_id: the set of values the call can return ("for vid in
\* allowed" walks a set, in an order the program does not fix)
effective_voice_id(settings, requested_voice_id, allow_default) ==
    LET default_voice == bot_default_voice(settings)
        fallback_voice == OrFallback(settings.fallback_voice)
        user_default == user_default_voice(settings)
        voice_id0 == IF Truthy(requested_voice_id)
                     THEN Strip(requested_voice_id[1])
                     ELSE IF allow_default THEN default_voice ELSE user_default
        voice_id == IF ~allow_default /\ voice_id0 = default_voice
                    THEN user_default ELSE voice_id0
        allowed == allowed_voice_ids(settings)
    IN  IF ~allowed.restricted THEN {voice_id}
        ELSE IF voice_id \in allowed.ids THEN {voice_id}
        ELSE IF allow_default THEN
            IF default_voice \in allowed.ids THEN {default_voice}
            ELSE IF fallback_voice \in allowed.ids THEN {fallback_voice}
            ELSE {voice_id}
        ELSE IF user_default \in allowed.ids THEN {user_default}
        ELSE IF allowed.ids \ {default_voice} # {} THEN allowed.ids \ {default_voice}
        ELSE IF default_voice \in allowed.ids THEN {default_voice}
        ELSE {voice_id}

\* the strings of at most n atoms
RECURSIVE StringsUpTo(_)
StringsUpTo(n) ==
    IF n = 0 THEN {<<>>}
    ELSE LET shorter == StringsUpTo(n - 1)
         IN  shorter \cup {Append(str, a) : str \in shorter, a \in Atoms}

\* values a settings record holds for default_voice_id and fallback_voice
SettingVoices ==
    {None, Some(<<SP>>), Some(<<"en_us_001">>), Some(<<"en_us_ghostface", SP>>)}

\* entries an allowed_voice_ids list holds
AllowedItems == {<<"en_us_001">>, <<SP, "en_us_c3po">>, <<SP>>}

\* one call of _effective_voice_id returns
VoiceResolve ==
    /\ voice.phase = "args"
    /\ \E r \in effective_voice_id(voice.settings, voice.requested,
                                   voice.allow_default) :
          voice' = [voice EXCEPT !.phase = "done", !.result = r]
    /\ UNCHANGED <<sessionVars, bq, dec, brk, mig, vs, lb, wst, fv, gs, gt, qs, ar, tc, ut>>

\* the same arguments are resolved again (the function keeps no state)
VoiceAgain ==
    /\ voice.phase = "done"
    /\ voice' = [voice EXCEPT !.phase = "args", !.result = <<>>]
    /\ UNCHANGED <<sessionVars, bq, dec, brk, mig, vs, lb, wst, fv, gs, gt, qs, ar, tc, ut>>

\* ------------------------------ utils/tts_pipeline.py: streaming decoder
\* A byte is a number 0..255, a character of the response a one-letter
\* string, the response a sequence of characters.
QUOTE == "\""

PAD == "="

B64Alphabet ==
    << "A", "B", "C", "D", "E", "F", "G", "H", "I", "J", "K", "L", "M",
       "N", "O", "P", "Q", "R", "S", "T", "U", "V", "W", "X", "Y", "Z",
       "a", "b", "c", "d", "e", "f", "g", "h", "i", "j", "k", "l", "m",
       "n", "o", "p", "q", "r", "s", "t", "u", "v", "w", "x", "y", "z",
       "0", "1", "2", "3", "4", "5", "6", "7", "8", "9", "+", "/" >>

B64Chars == {B64Alphabet[i] : i \in DOMAIN B64Alphabet}

B64Value(c) == CHOOSE i \in 0 .. 63 : B64Alphabet[i + 1] = c

\* the provider's side: base64 of the audio bytes m, with padding
RECURSIVE B64Encode(_)
B64Encode(m) ==
    LET Ch(i) == B64Alphabet[i + 1]
        b1 == m[1]
        b2 == IF Len(m) >= 2 THEN m[2] ELSE 0
        b3 == IF Len(m) >= 3 THEN m[3] ELSE 0
        n == b1 * 65536 + b2 * 256 + b3
        c1 == Ch(n \div 262144)
        c2 == Ch((n \div 4096) % 64)
        c3 == Ch((n \div 64) % 64)
        c4 == Ch(n % 64)
    IN  IF m = <<>> THEN <<>>
        ELSE IF Len(m) = 1 THEN <<c1, c2, PAD, PAD>>
        ELSE IF Len(m) = 2 THEN <<c1, c2, c3, PAD>>
        ELSE <<c1, c2, c3, c4>> \o B64Encode(SubSeq(m, 4, Len(m)))

\* base64.b64decode(text): characters outside the alphabet are skipped, a
\* completed padding ends the input, an incomplete last quantum is an error
RECURSIVE A2B(_, _, _, _, _)
A2B(text, quad, left, pads, out) ==
    IF text = <<>> THEN [ok |-> quad = 0, bytes |-> out]
    ELSE LET c == Head(text)
             rest == Tail(text)
         IN  IF c = PAD THEN
                 IF quad >= 2
                 THEN IF quad + pads + 1 >= 4
                      THEN [ok |-> TRUE, bytes |-> out]
                      ELSE A2B(rest, quad, left, pads + 1, out)
                 ELSE A2B(rest, quad, left, pads, out)
             ELSE IF c \notin B64Chars THEN A2B(rest, quad, left, pads, out)
             ELSE LET v == B64Value(c) IN
                 CASE quad = 0 -> A2B(rest, 1, v, 0, out)
                   [] quad = 1 ->
                        A2B(rest, 2, v % 16, 0, Append(out, left * 4 + v \div 16))
                   [] quad = 2 ->
                        A2B(rest, 3, v % 4, 0, Append(out, left * 16 + v \div 4))
                   [] quad = 3 ->
                        A2B(rest, 0, 0, 0, Append(out, left * 64 + v))

B64Decode(text) == A2B(text, 0, 0, 0, <<>>)

\* bytes.find: the first position (from 1) where key starts in buf at or
\* after i, 0 when there is none
RECURSIVE FindFrom(_, _, _)
FindFrom(buf, key, i) ==
    IF i + Len(key) - 1 > Len(buf) THEN 0
    ELSE IF SubSeq(buf, i, i + Len(key) - 1) = key THEN i
    ELSE FindFrom(buf, key, i + 1)

Whitespace == {" ", "\t", "\r", "\n"}

RECURSIVE SkipWs(_, _)
SkipWs(buf, i) ==
    IF i <= Len(buf) /\ buf[i] \in Whitespace THEN SkipWs(buf, i + 1) ELSE i

DataKey == <<QUOTE, "d", "a", "t", "a", QUOTE>>

\* a lookup that does not know the null literal
json_find_quoted_only(buf, key) ==
    LET key_idx == FindFrom(buf, key, 1)
        colon == SkipWs(buf, key_idx + Len(key))
        i == SkipWs(buf, colon + 1)
        n == Len(buf)
        Nothing == [kind |-> "none", at |-> 0]
    IN  IF key_idx = 0 THEN Nothing
        ELSE IF colon > n \/ buf[colon] # ":" THEN Nothing
        ELSE IF i > n THEN Nothing
        ELSE IF buf[i] # QUOTE THEN Nothing
        ELSE [kind |-> "start", at |-> i + 1]

\* _json_find_string_value_start(buf, b'"data"'): kind "none" is None,
\* "null" is -1, "start" gives in at the position (from 1) of the first
\* character after the opening quote
json_find_string_value_start(buf, key) ==
    LET key_idx == FindFrom(buf, key, 1)
        colon == SkipWs(buf, key_idx + Len(key))
        i == SkipWs(buf, colon + 1)
        n == Len(buf)
        Nothing == [kind |-> "none", at |-> 0]
    IN  IF key_idx = 0 THEN Nothing
        ELSE IF colon > n \/ buf[colon] # ":" THEN Nothing
        ELSE IF i > n THEN Nothing
        ELSE IF SubSeq(buf, i, IF i + 3 <= n THEN i + 3 ELSE n)
                   = <<"n", "u", "l", "l">>
             THEN [kind |-> "null", at |-> 0]
        ELSE IF buf[i] # QUOTE THEN Nothing
        ELSE [kind |-> "start", at |-> i + 1]

\* decoding everything buffered, whole quanta or not
QuantaAll(n) == n

\* decode_len = (len(b64_buf) // 4) * 4
QuantaLen(n) == (n \div 4) * 4

\* consume_b64_bytes(data) on the buffer b64_buf: the new buffer, the bytes
\* fed to the stream, whether the JSON string has ended, whether b64decode
\* raised
consume_b64_bytes(b64_buf, data) ==
    LET end_quote == FindFrom(data, <<QUOTE>>, 1) IN
    IF end_quote # 0 THEN
        LET d == B64Decode(b64_buf \o SubSeq(data, 1, end_quote - 1))
        IN  [buf |-> IF d.ok THEN <<>> ELSE b64_buf \o SubSeq(data, 1, end_quote - 1),
             out |-> IF d.ok THEN d.bytes ELSE <<>>,
             ended |-> TRUE, raised |-> ~d.ok]
    ELSE
        LET all == b64_buf \o data
            decode_len == QuantaLen(Len(all))
            d == B64Decode(SubSeq(all, 1, decode_len))
        IN  IF decode_len >= 4
            THEN [buf |-> SubSeq(all, decode_len + 1, Len(all)),
                  out |-> IF d.ok THEN d.bytes ELSE <<>>,
                  ended |-> FALSE, raised |-> ~d.ok]
            ELSE [buf |-> all, out |-> <<>>, ended |-> FALSE, raised |-> FALSE]

\* a run of _decode_tiktok_json_base64_stream ends with an error
DecodeFail(d, err) == [d EXCEPT !.phase = "error", !.err = err]

\* the code after the read loop, tts_pipeline.py:243-264
PostLoop(d) ==
    IF ~d.saw_data THEN DecodeFail(d, "No audio data")
    ELSE LET flush == B64Decode(d.b64_buf)
             d1 == IF d.b64_buf # <<>> /\ flush.ok
                   THEN [d EXCEPT !.fed = @ \o flush.bytes, !.b64_buf = <<>>]
                   ELSE d
         IN  IF d.b64_buf # <<>> /\ ~flush.ok
             THEN DecodeFail(d, "Invalid TikTok base64")
             ELSE IF d1.fed = <<>>
             THEN DecodeFail(d1, "TikTok returned empty audio data")
             ELSE [d1 EXCEPT !.phase = "ok"]

\* consume_b64_bytes on a chunk, and the break that follows its True.
\* carried records that a chunk ended inside a base64 quantum.
Consume(d, data) ==
    LET c == consume_b64_bytes(d.b64_buf, data)
        d1 == [d EXCEPT !.b64_buf = c.buf, !.fed = @ \o c.out,
                        !.carried = @ \/ (~c.ended /\ c.buf # <<>>)]
    IN  IF c.raised THEN DecodeFail(d1, "Invalid TikTok base64")
        ELSE IF c.ended THEN PostLoop(d1)
        ELSE d1

\* one turn of the read loop on a chunk, tts_pipeline.py:220-241
OnChunk(d, chunk) ==
    IF d.saw_data THEN Consume(d, chunk)
    ELSE LET prefix == d.prefix \o chunk
             start == json_find_string_value_start(prefix, DataKey)
         IN  IF Len(prefix) > PREFIX_LIMIT
             THEN DecodeFail(d, "TikTok JSON parse error")
             ELSE IF start.kind = "none" THEN [d EXCEPT !.prefix = prefix]
             ELSE IF start.kind = "null"
             THEN DecodeFail(d, "TikTok returned null audio data")
             ELSE Consume([d EXCEPT !.saw_data = TRUE, !.prefix = <<>>],
                          SubSeq(prefix, start.at, Len(prefix)))

\* the audio bytes and the bodies the provider sends
Bytes == {0, 72, 255}

RECURSIVE MsgsUpTo(_)
MsgsUpTo(n) ==
    IF n = 0 THEN {<<>>}
    ELSE LET shorter == MsgsUpTo(n - 1)
         IN  shorter \cup {Append(m, b) : m \in shorter, b \in Bytes}

\* what comes before the "data" key in the body: nothing, "error":null, or
\* a member whose value is the string "data"
OtherKeys ==
    {<<>>,
     <<QUOTE, "e", "r", "r", "o", "r", QUOTE, ":", "n", "u", "l", "l", ",">>,
     <<QUOTE, "k", QUOTE, ":", QUOTE, "d", "a", "t", "a", QUOTE, ",">>}

\* kind "valid": {..."data":"<base64(m)>"}; "truncated": the same body cut
\* before the closing quote; "null": {..."data":null}
Response(kind, keys, m) ==
    LET head == <<"{">> \o keys \o DataKey \o <<":">> IN
    IF kind = "null" THEN head \o <<"n", "u", "l", "l", "}">>
    ELSE head \o <<QUOTE>> \o B64Encode(m)
              \o (IF kind = "valid" THEN <<QUOTE, "}">> ELSE <<>>)

NewDecode(kind, keys, m) ==
    [phase |-> "reading", kind |-> kind, keys |-> keys, msg |-> m,
     resp |-> Response(kind, keys, m), pos |-> 0, prefix |-> <<>>,
     b64_buf |-> <<>>, saw_data |-> FALSE, fed |-> <<>>, err |-> "none",
     carried |-> FALSE]

\* resp.content.iter_chunked yields the next n bytes of the body
DecodeChunk(n) ==
    /\ dec.phase = "reading"
    /\ dec.pos + n <= Len(dec.resp)
    /\ dec' = OnChunk([dec EXCEPT !.pos = @ + n],
                      SubSeq(dec.resp, dec.pos + 1, dec.pos + n))
    /\ UNCHANGED <<sessionVars, bq, voice, brk, mig, vs, lb, wst, fv, gs, gt, qs, ar, tc, ut>>

\* the body ends and the read loop with it
DecodeEof ==
    /\ dec.phase = "reading"
    /\ dec.pos = Len(dec.resp)
    /\ dec' = PostLoop(dec)
    /\ UNCHANGED <<sessionVars, bq, voice, brk, mig, vs, lb, wst, fv, gs, gt, qs, ar, tc, ut>>

\* ------------------------------- utils/tts_pipeline.py: circuit breakers
\* circuit_breakers: name -> (failure_threshold, reset_timeout)
TIKTOK_THRESHOLD == 3
TIKTOK_RESET == 60
GOOGLE_THRESHOLD == 5
GOOGLE_RESET == 30

Breakers == {"tiktok", "google"}

\* CircuitBreaker.__init__, with the model's clock, callers and history:
\* streak counts the failed calls completed since the last success,
\* last_fail is the time the latest of them began, refused and healed record
\* that a call failed fast and that a call ran op after the window
NewBreaker(name) ==
    [name |-> name,
     failure_threshold |-> IF name = "tiktok" THEN TIKTOK_THRESHOLD
                           ELSE GOOGLE_THRESHOLD,
     reset_timeout |-> IF name = "tiktok" THEN TIKTOK_RESET ELSE GOOGLE_RESET,
     failures |-> 0, open_until |-> 0,
     clock |-> 1, ncalls |-> 0,
     calls |-> [c \in Callers |-> [pc |-> "idle", now |-> 0, ret |-> "none"]],
     streak |-> 0, last_fail |-> 0, refused |-> FALSE, healed |-> FALSE]

\* a breaker that opens one failure late
TrippedLate(b) == b.failures > b.failure_threshold

\* self.failures >= self.failure_threshold
Tripped(b) == b.failures >= b.failure_threshold

\* self.open_until and now < self.open_until
FailFast(b, t) == b.open_until # 0 /\ t < b.open_until

\* execute up to its await: now is read, an open breaker raises, otherwise
\* func() starts
ExecBegin(c) ==
    /\ brk.calls[c].pc = "idle"
    /\ brk.ncalls < MaxBreakerCalls
    /\ IF FailFast(brk, brk.clock)
       THEN brk' = [brk EXCEPT
                !.calls[c] = [pc |-> "idle", now |-> brk.clock, ret |-> "open"],
                !.refused = TRUE]
       ELSE brk' = [brk EXCEPT
                !.calls[c] = [pc |-> "running", now |-> brk.clock,
                              ret |-> "none"],
                !.ncalls = @ + 1,
                !.healed = @ \/ brk.open_until # 0]
    /\ UNCHANGED <<sessionVars, bq, voice, dec, mig, vs, lb, wst, fv, gs, gt, qs, ar, tc, ut>>

\* func() returned: failures = 0, open_until = 0.0
ExecSuccess(c) ==
    /\ brk.calls[c].pc = "running"
    /\ brk' = [brk EXCEPT !.failures = 0, !.open_until = 0,
                          !.calls[c].pc = "idle", !.calls[c].ret = "ok",
                          !.streak = 0]
    /\ UNCHANGED <<sessionVars, bq, voice, dec, mig, vs, lb, wst, fv, gs, gt, qs, ar, tc, ut>>

\* func() raised: failures += 1, and at the threshold the breaker opens
\* until reset_timeout after the time the call began
ExecFailure(c) ==
    /\ brk.calls[c].pc = "running"
    /\ LET b1 == [brk EXCEPT !.failures = @ + 1]
           b2 == IF Tripped(b1)
                 THEN [b1 EXCEPT !.open_until =
                                     brk.calls[c].now + brk.reset_timeout]
                 ELSE b1
       IN  brk' = [b2 EXCEPT !.calls[c].pc = "idle",
                             !.calls[c].ret = "raised",
                             !.streak = @ + 1,
                             !.last_fail = brk.calls[c].now]
    /\ UNCHANGED <<sessionVars, bq, voice, dec, mig, vs, lb, wst, fv, gs, gt, qs, ar, tc, ut>>

\* time.monotonic() advances
BreakerTick ==
    /\ brk.clock + ClockStep <= 1 + MaxTicks * ClockStep
    /\ brk' = [brk EXCEPT !.clock = @ + ClockStep]
    /\ UNCHANGED <<sessionVars, bq, voice, dec, mig, vs, lb, wst, fv, gs, gt, qs, ar, tc, ut>>

\* ------------------------- cogs/tts.py: user voices and their migration
\* discord_users.voice_id and TTSCog.user_voice_cache hold a voice id or
\* None (here the empty string)
UserVoices == {<<>>} \cup {ALL_VOICE_IDS[i] : i \in DOMAIN ALL_VOICE_IDS}

\* the settings record with the two fields the migration reads
VoiceSettings(d, f) ==
    [default_voice_id |-> d, fallback_voice |-> f,
     restrict_voices |-> FALSE, allowed_voice_ids |-> {}]

\* UPDATE discord_users SET voice_id = to WHERE voice_id = from
replace_user_voice(db, from, to) ==
    [u \in DOMAIN db |-> IF db[u] = from THEN to ELSE db[u]]

\* the loop over user_voice_cache of migrate_voice, tts.py:288-290
ReplaceCached(m, from, to) ==
    [m EXCEPT !.cache = [u \in Users |->
                            IF u \in m.cached /\ m.cache[u] = from
                            THEN to ELSE m.cache[u]]]

\* the bot with the default voice of settings already seen by
\* _maybe_migrate_default_voice; every cached voice is the stored one
NewMigrate(d, f, db, cached) ==
    [settings |-> VoiceSettings(d, f),
     default_by_guild |-> bot_default_voice(VoiceSettings(d, f)),
     db |-> db,
     cache |-> [u \in Users |-> IF u \in cached THEN db[u] ELSE <<>>],
     cached |-> cached,
     m |-> [pc |-> "idle", old |-> <<>>, new |-> <<>>, replacement |-> <<>>],
     g |-> [pc |-> "idle", uid |-> CHOOSE u \in Users : TRUE, val |-> <<>>],
     nchanges |-> 0, from |-> <<>>, holders |-> {}]

\* the tenant's default_voice_id is set to d in the settings store; from and
\* holders record the default it replaces and the users who held that voice
ChangeDefault(d) ==
    /\ mig.nchanges < MaxChanges
    /\ mig.m.pc = "idle"
    /\ mig.default_by_guild = bot_default_voice(mig.settings)
    /\ bot_default_voice(VoiceSettings(d, mig.settings.fallback_voice))
           # bot_default_voice(mig.settings)
    /\ mig' = [mig EXCEPT
           !.settings.default_voice_id = d,
           !.nchanges = @ + 1,
           !.from = bot_default_voice(mig.settings),
           !.holders = {u \in Users :
                           mig.db[u] = bot_default_voice(mig.settings)}]
    /\ UNCHANGED <<sessionVars, bq, voice, dec, brk, vs, lb, wst, fv, gs, gt, qs, ar, tc, ut>>

\* _maybe_migrate_default_voice up to its first await, tts.py:269-297
MigrateBegin ==
    /\ mig.m.pc = "idle"
    /\ LET new_default == bot_default_voice(mig.settings)
           old_default == mig.default_by_guild
           args == [mig.m EXCEPT !.old = old_default, !.new = new_default,
                        !.replacement = user_default_voice(mig.settings)]
       IN  /\ old_default # new_default
           /\ mig' = [mig EXCEPT !.m = [args EXCEPT !.pc = "db_old"]]
    /\ UNCHANGED <<sessionVars, bq, voice, dec, brk, vs, lb, wst, fv, gs, gt, qs, ar, tc, ut>>

\* db.replace_user_voice(old_default, replacement) runs in the database
MigrateDbOld ==
    /\ mig.m.pc = "db_old"
    /\ mig' = [mig EXCEPT
           !.db = replace_user_voice(@, mig.m.old, mig.m.replacement),
           !.m.pc = "cache_old"]
    /\ UNCHANGED <<sessionVars, bq, voice, dec, brk, vs, lb, wst, fv, gs, gt, qs, ar, tc, ut>>

\* migrate_voice(old_default) resumes: the cache loop
MigrateCacheOld ==
    /\ mig.m.pc = "cache_old"
    /\ mig' = [ReplaceCached(mig, mig.m.old, mig.m.replacement)
                   EXCEPT !.m.pc = "db_new"]
    /\ UNCHANGED <<sessionVars, bq, voice, dec, brk, vs, lb, wst, fv, gs, gt, qs, ar, tc, ut>>

\* db.replace_user_voice(new_default, replacement) runs in the database
MigrateDbNew ==
    /\ mig.m.pc = "db_new"
    /\ mig' = [mig EXCEPT
           !.db = replace_user_voice(@, mig.m.new, mig.m.replacement),
           !.m.pc = "cache_new"]
    /\ UNCHANGED <<sessionVars, bq, voice, dec, brk, vs, lb, wst, fv, gs, gt, qs, ar, tc, ut>>

\* migrate_voice(new_default) resumes: the cache loop, then
\* _default_voice_by_guild[guild_id] = new_default
MigrateCacheNew ==
    /\ mig.m.pc = "cache_new"
    /\ mig' = [ReplaceCached(mig, mig.m.new, mig.m.replacement)
                   EXCEPT !.m.pc = "idle", !.default_by_guild = mig.m.new]
    /\ UNCHANGED <<sessionVars, bq, voice, dec, brk, vs, lb, wst, fv, gs, gt, qs, ar, tc, ut>>

\* get_user_voice(u) misses the cache and asks the database, tts.py:467-476
GetVoiceBegin(u) ==
    /\ mig.g.pc = "idle"
    /\ u \notin mig.cached
    /\ mig' = [mig EXCEPT !.g = [pc |-> "select", uid |-> u, val |-> <<>>]]
    /\ UNCHANGED <<sessionVars, bq, voice, dec, brk, vs, lb, wst, fv, gs, gt, qs, ar, tc, ut>>

\* the SELECT of db.get_user_voice runs in the database, db.py:184-193
GetVoiceSelect ==
    /\ mig.g.pc = "select"
    /\ mig' = [mig EXCEPT !.g.pc = "fill", !.g.val = mig.db[mig.g.uid]]
    /\ UNCHANGED <<sessionVars, bq, voice, dec, brk, vs, lb, wst, fv, gs, gt, qs, ar, tc, ut>>

\* get_user_voice resumes: user_voice_cache[discord_id] = voice_id
GetVoiceFill ==
    /\ mig.g.pc = "fill"
    /\ mig' = [mig EXCEPT !.cache[mig.g.uid] = mig.g.val,
                          !.cached = @ \cup {mig.g.uid},
                          !.g.pc = "idle"]
    /\ UNCHANGED <<sessionVars, bq, voice, dec, brk, vs, lb, wst, fv, gs, gt, qs, ar, tc, ut>>

\* --------------------------- cogs/tts.py: on_voice_state_update (members)
\* vs.at is the voice channel of each non-bot member (0: not in voice),
\* vs.ev the event each handler task is working on with its bot_channel
\* (tts.py:875-877), vs.leave_when_alone the tenant's setting.  greet_on_join
\* and farewell_on_leave are off, their defaults (tts.py:248-249).
\* History: last says that the event took the last non-bot member out of
\* the channel the bot was in.  left is the number of events still to come.
IdleEvent ==
    [member |-> "none", before |-> 0, after |-> 0, bot |-> 0, last |-> FALSE]

NewPresence(lwa, events) ==
    [at |-> [m \in Members |-> 0], leave_when_alone |-> lwa,
     ev |-> [p \in EvtTasks |-> IdleEvent], left |-> events]

\* [m for m in channel.members if not m.bot]
NonBotMembers(c) == {m \in Members : vs.at[m] = c}

\* a test that takes a channel with one member for an empty one
NobodyOrOne(c) == Cardinality(NonBotMembers(c)) <= 1

\* len(non_bot_members) == 0
Nobody(c) == NonBotMembers(c) = {}

\* joined_bot_channel or left_bot_channel, tts.py:899-908
TouchesBotChannel(e) ==
    /\ e.bot # 0
    /\ \/ e.after = e.bot /\ e.before # e.bot
       \/ e.before = e.bot /\ e.after # e.bot

\* the handler returns; v is vs with the platform's view of the members
VS_End(p, v) ==
    /\ tasks' = [tasks EXCEPT ![p] = IdleTask]
    /\ vs' = [v EXCEPT !.ev[p] = IdleEvent]

\* the handler suspends at pc; of the event, what the code still reads
VS_Await(p, v, e, pc) ==
    /\ tasks' = [tasks EXCEPT ![p] = [IdleTask EXCEPT !.op = "vs", !.pc = pc]]
    /\ vs' = [v EXCEPT !.ev[p] = IF pc = "vs_auto" THEN e
                                 ELSE [IdleEvent EXCEPT !.last = e.last]]

\* tts.py:955-956: check_should_leave is awaited when the session's voice
\* client is connected; it first awaits get_settings
VS_ToCheck(p, v, e) ==
    IF Attached THEN VS_Await(p, v, e, "vs_check") ELSE VS_End(p, v)

\* tts.py:897-911: after the auto-join part, an event that touches the bot's
\* channel awaits get_settings and get_user_greeting_name
VS_ToGreet(p, v, e) ==
    IF TouchesBotChannel(e) THEN VS_Await(p, v, e, "vs_name")
    ELSE VS_ToCheck(p, v, e)

\* the session variables a step of the handler itself leaves alone
VS_Frame ==
    UNCHANGED <<state, queue, connect_lock, workers, guild_vc, clients, now,
                botLeftEvt, nEnq, sinkLog, skipped>>

\* The loop runs what is ready before it looks for new input: a task whose
\* call has returned (pc ec_ret, dc_ret) or that was woken by the release of
\* connect_lock runs before a new event is dispatched and before the
\* database answers a handler.
Quiet ==
    /\ \A p \in EvtTasks : tasks[p].pc \notin {"ec_ret", "dc_ret"}
    /\ connect_lock.locked \/ connect_lock.waiters = <<>>

\* the handler tasks are alike: an event takes the first one at rest
FirstIdle(p) ==
    /\ tasks[p].pc = "idle"
    /\ p = "evt2" => tasks["evt"].pc # "idle"
    /\ p = "evt3" => tasks["evt"].pc # "idle" /\ tasks["evt2"].pc # "idle"

\* a non-bot member moves from one voice channel (or none) to another (or
\* none); the platform updates channel.members and a handler task starts,
\* reads bot_channel and, for a member now in a channel, awaits
\* get_user_auto_join (tts.py:860-884)
VS_Begin(p, m, to) ==
    /\ FirstIdle(p)
    /\ Quiet
    /\ vs.left > 0
    /\ to # vs.at[m]
    /\ LET v == [vs EXCEPT !.at[m] = to, !.left = @ - 1]
           e == [member |-> m, before |-> vs.at[m], after |-> to,
                 bot |-> AttachedChannel,
                 last |-> /\ Attached
                          /\ NonBotMembers(AttachedChannel) = {m}]
       IN  IF to # 0 THEN VS_Await(p, v, e, "vs_auto")
           ELSE VS_ToGreet(p, v, e)
    /\ VS_Frame
    /\ UNCHANGED <<bq, voice, dec, brk, mig, lb, wst, fv, gs, gt, qs, ar, tc, ut>>

\* get_user_auto_join has returned: the auto-join part, tts.py:884-895
VS_AutoJoin(p) ==
    /\ tasks[p].pc = "vs_auto"
    /\ Quiet
    /\ LET e == vs.ev[p] IN
       IF e.member \in AutoJoiners /\ e.bot # 0 /\ e.bot # e.after
             /\ Nobody(e.bot)
       THEN /\ DC_Enter(p, [IdleTask EXCEPT !.op = "vs",
                                            !.reason = "auto_join_move"])
            /\ UNCHANGED vs
       ELSE IF e.member \in AutoJoiners /\ e.bot = 0
       THEN /\ EC_Enter(p, [IdleTask EXCEPT !.op = "vs", !.ch = e.after])
            /\ UNCHANGED vs
       ELSE /\ VS_ToGreet(p, vs, e)
            /\ VS_Frame
    /\ UNCHANGED <<bq, voice, dec, brk, mig, lb, wst, fv, gs, gt, qs, ar, tc, ut>>

\* disconnect(guild, "auto_join_move") has returned (or raised what ended
\* the worker): ensure_connected(guild, target_channel), tts.py:893
VS_AfterMove(p) ==
    /\ tasks[p].pc = "dc_ret"
    /\ tasks[p].op = "vs"
    /\ tasks[p].reason = "auto_join_move"
    /\ IF tasks[p].ret = "raised"
       THEN /\ VS_End(p, vs)
            /\ VS_Frame
       ELSE /\ EC_Enter(p, [IdleTask EXCEPT !.op = "vs",
                                            !.ch = vs.ev[p].after])
            /\ UNCHANGED vs
    /\ UNCHANGED <<bq, voice, dec, brk, mig, lb, wst, fv, gs, gt, qs, ar, tc, ut>>

\* ensure_connected has returned, whatever its result
VS_AfterConnect(p) ==
    /\ tasks[p].pc = "ec_ret"
    /\ tasks[p].op = "vs"
    /\ VS_ToGreet(p, vs, vs.ev[p])
    /\ VS_Frame
    /\ UNCHANGED <<bq, voice, dec, brk, mig, lb, wst, fv, gs, gt, qs, ar, tc, ut>>

\* get_settings and get_user_greeting_name have returned; nothing is said
VS_Greeted(p) ==
    /\ tasks[p].pc = "vs_name"
    /\ Quiet
    /\ VS_ToCheck(p, vs, vs.ev[p])
    /\ VS_Frame
    /\ UNCHANGED <<bq, voice, dec, brk, mig, lb, wst, fv, gs, gt, qs, ar, tc, ut>>

\* check_should_leave once get_settings has returned, tts.py:724-734
VS_CheckShouldLeave(p) ==
    /\ tasks[p].pc = "vs_check"
    /\ Quiet
    /\ IF vs.leave_when_alone /\ Attached /\ Nobody(AttachedChannel)
       THEN /\ DC_Enter(p, [IdleTask EXCEPT !.op = "vs", !.reason = "alone"])
            /\ UNCHANGED vs
       ELSE /\ VS_End(p, vs)
            /\ VS_Frame
    /\ UNCHANGED <<bq, voice, dec, brk, mig, lb, wst, fv, gs, gt, qs, ar, tc, ut>>

\* disconnect(guild, "alone") has returned or raised
VS_Left(p) ==
    /\ tasks[p].pc = "dc_ret"
    /\ tasks[p].op = "vs"
    /\ tasks[p].reason = "alone"
    /\ VS_End(p, vs)
    /\ VS_Frame
    /\ UNCHANGED <<bq, voice, dec, brk, mig, lb, wst, fv, gs, gt, qs, ar, tc, ut>>

\* one pass of _voice_health_loop over the guild with the members the
\* platform shows (tts.py:191-225): the pass goes on to ensure_connected
\* when the target channel holds a non-bot member
HealthPass(p) ==
    /\ p = "health"
    /\ tasks[p].pc = "idle"
    /\ Quiet
    /\ IF Attached THEN
            /\ state' = [state EXCEPT !.last_voice_channel_id = AttachedChannel]
            /\ UNCHANGED <<tasks, connect_lock, guild_vc, clients>>
       ELSE IF GuildLive THEN
            /\ state' = [state EXCEPT
                            !.voice_client = guild_vc,
                            !.last_voice_channel_id = clients[guild_vc].chan]
            /\ UNCHANGED <<tasks, connect_lock, guild_vc, clients>>
       ELSE LET target == IF state.voice_channel_id # 0
                          THEN state.voice_channel_id
                          ELSE state.last_voice_channel_id
            IN  /\ target # 0
                /\ ~Nobody(target)
                /\ EC_Enter(p, [IdleTask EXCEPT !.op = "health", !.ch = target])
    /\ UNCHANGED <<queue, workers, now, botLeftEvt, nEnq, sinkLog, skipped>>
    /\ UNCHANGED pureVars

\* ----------------------------------------------- utils/log_buffer.py: LogBuffer
\* Log lines are numbered 1, 2, ... in the order of append.  lb.lines is the
\* ring (deque(maxlen=max_lines)), lb.subscribers the set of subscribed
\* queues, lb.gone the queues unsubscribed, lb.q the content of each subscriber's asyncio.Queue, lb.ready the
\* fanout callbacks handed to the loop (call_soon_threadsafe, FIFO).
\* History: napp counts the appends, snap[n] and room[n] are the
\* subscribers line n was fanned out to and those whose queue had room
\* then, put[s] and drop[s] the lines queued for s and dropped for s.
\* lb.pending[t] is what thread t, past the lock of append, is about to hand
\* to the loop; lb.initial[s] the initial_lines of s's subscription.
NewLogBuffer ==
    [lines |-> <<>>, subscribers |-> {},
     pending |-> [t \in Threads |-> <<>>],
     initial |-> [s \in Subs |-> <<>>],
     gone |-> {}, q |-> [s \in Subs |-> <<>>],
     ready |-> <<>>,
     napp |-> 0, nfan |-> 0,
     snap |-> [n \in 1..MaxAppends |-> {}],
     room |-> [n \in 1..MaxAppends |-> {}],
     put |-> [s \in Subs |-> {}],
     drop |-> [s \in Subs |-> {}]]

\* deque(maxlen=max_lines).append: the oldest line goes once the ring is full
RingAppend(lines, line) ==
    IF Len(lines) < MaxLines THEN Append(lines, line)
    ELSE Append(Tail(lines), line)

\* a put that never raises QueueFull
PutAlways(q, line) == Append(q, line)

\* asyncio.Queue(maxsize=max_queue).put_nowait with QueueFull swallowed
PutNowait(q, line) ==
    IF Len(q) >= MaxQueue THEN q ELSE Append(q, line)

\* LogBuffer.append(line), from any thread: under the lock the ring takes the
\* line and the subscribers are copied; fanout goes to the loop
LB_Append ==
    /\ lb.napp < MaxAppends
    /\ LET n == lb.napp + 1 IN
       lb' = [lb EXCEPT !.lines = RingAppend(@, n),
                        !.ready = Append(@, [line |-> n,
                                             subscribers |-> lb.subscribers]),
                        !.napp = n]
    /\ UNCHANGED <<sessionVars, bq, voice, dec, brk, mig, vs, wst, fv, gs, gt, qs, ar, tc, ut>>

\* append in a thread that may lose the processor between its two halves:
\* "with self._lock" stores the line and copies the subscribers
\* (log_buffer.py:45-47) ...
LB_Store(t) ==
    /\ lb.napp < MaxAppends
    /\ lb.pending[t] = <<>>
    /\ LET n == lb.napp + 1 IN
       lb' = [lb EXCEPT !.lines = RingAppend(@, n),
                        !.pending[t] = <<[line |-> n,
                                          subscribers |-> lb.subscribers]>>,
                        !.napp = n]
    /\ UNCHANGED <<sessionVars, bq, voice, dec, brk, mig, vs, wst, fv, gs, gt, qs, ar, tc, ut>>

\* ... and call_soon_threadsafe(fanout), outside the lock, queues the
\* callback on the loop (log_buffer.py:57-58)
LB_Handoff(t) ==
    /\ lb.pending[t] # <<>>
    /\ lb' = [lb EXCEPT !.ready = Append(@, lb.pending[t][1]),
                        !.pending[t] = <<>>]
    /\ UNCHANGED <<sessionVars, bq, voice, dec, brk, mig, vs, wst, fv, gs, gt, qs, ar, tc, ut>>

\* the loop runs the oldest fanout callback
LB_Fanout ==
    /\ lb.ready # <<>>
    /\ LET f == Head(lb.ready)
           fits == {s \in f.subscribers : Len(lb.q[s]) < MaxQueue}
       IN  lb' = [lb EXCEPT
                    !.ready = Tail(@),
                    !.q = [s \in Subs |->
                              IF s \in f.subscribers
                              THEN PutNowait(lb.q[s], f.line) ELSE lb.q[s]],
                    !.nfan = f.line,
                    !.snap[f.line] = f.subscribers,
                    !.room[f.line] = fits,
                    !.put = [s \in Subs |->
                               IF s \in f.subscribers
                                    /\ Len(PutNowait(lb.q[s], f.line))
                                          > Len(lb.q[s])
                               THEN lb.put[s] \cup {f.line} ELSE lb.put[s]],
                    !.drop = [s \in Subs |->
                               IF s \in f.subscribers
                                    /\ PutNowait(lb.q[s], f.line) = lb.q[s]
                               THEN lb.drop[s] \cup {f.line} ELSE lb.drop[s]]]
    /\ UNCHANGED <<sessionVars, bq, voice, dec, brk, mig, vs, wst, fv, gs, gt, qs, ar, tc, ut>>

\* list(self._lines)[-tail:]
LastLines(lines, tail) ==
    IF Len(lines) <= tail THEN lines
    ELSE SubSeq(lines, Len(lines) - tail + 1, Len(lines))

\* LogBuffer.subscribe: a new empty queue joins the subscribers and the
\* subscription takes the last lines of the ring, both under the lock
\* (api_logs_stream, webui.py:2033)
LB_Subscribe(s) ==
    /\ s \notin lb.subscribers \cup lb.gone
    /\ lb' = [lb EXCEPT !.subscribers = @ \cup {s},
                        !.initial[s] = LastLines(lb.lines, TailLines)]
    /\ UNCHANGED <<sessionVars, bq, voice, dec, brk, mig, vs, wst, fv, gs, gt, qs, ar, tc, ut>>

\* LogBuffer.unsubscribe, when the stream's connection ends (webui.py:2055);
\* callbacks already handed to the loop still hold the queue
LB_Unsubscribe(s) ==
    /\ s \in lb.subscribers
    /\ lb' = [lb EXCEPT !.subscribers = @ \ {s}, !.gone = @ \cup {s}]
    /\ UNCHANGED <<sessionVars, bq, voice, dec, brk, mig, vs, wst, fv, gs, gt, qs, ar, tc, ut>>

\* the stream handler takes a line from its queue (webui.py:2049); a stalled
\* subscriber never does
LB_Get(s) ==
    /\ s \in lb.subscribers
    /\ lb.q[s] # <<>>
    /\ lb' = [lb EXCEPT !.q[s] = Tail(@)]
    /\ UNCHANGED <<sessionVars, bq, voice, dec, brk, mig, vs, wst, fv, gs, gt, qs, ar, tc, ut>>

\* ------------------------------------------------- cogs/webui.py: ws_tts
\* wst.pc is where the connection handler is: "recv" in "async for msg in
\* ws", "join" in "await in_flight" after in_flight.cancel(), "closing" in the
\* same await of the finally clause, "closed" once ws_tts has returned or
\* raised.  wst.job[j] is the stream_tts task of the j-th accepted text
\* frame, wst.in_flight the handler's variable (0: None), wst.sent the frames
\* written to the socket, as <<job, kind>>.  A send is one step.
\* History: accepted counts the text frames that passed validation,
\* superseded is the set of jobs cancelled because a new text frame came.
IdleJob == [pc |-> "none", chunks |-> 0, must_cancel |-> FALSE]

NewSocket ==
    [pc |-> "recv", in_flight |-> 0, raised |-> FALSE,
     job |-> [j \in 1..MaxFrames |-> IdleJob],
     sent |-> <<>>, nframes |-> 0, accepted |-> 0, superseded |-> {}]

\* task.done()
JobDone(j) == wst.job[j].pc \in {"done", "cancelled"}

JobRunning(j) == wst.job[j].pc \in {"opening", "streaming", "ending"}

\* "with contextlib.suppress(Exception): await in_flight" at
\* webui.py:2272-2273 once the cancelled task is done: awaiting it raises
\* CancelledError, which is not an Exception; the loop is left through the
\* finally clause (in_flight is done) and ws_tts ends with the error
JoinCancelled(w) == [w EXCEPT !.pc = "closed", !.raised = TRUE]

\* in_flight = asyncio.create_task(stream_tts(text, voice_id)), for a known
\* voice: the task runs up to "await get_tts_stream"
CreateJob(w) ==
    LET j == w.accepted IN
    [w EXCEPT !.in_flight = j, !.job[j] = [IdleJob EXCEPT !.pc = "opening"]]

\* a text frame arrives (webui.py:2256-2275): kind "bad" is invalid JSON or
\* an empty text and is answered with an error frame
WS_Text(kind) ==
    /\ wst.pc = "recv"
    /\ wst.nframes < MaxFrames
    /\ LET w == [wst EXCEPT !.nframes = @ + 1] IN
       IF kind = "bad"
       THEN wst' = [w EXCEPT !.sent = Append(@, <<0, "error">>)]
       ELSE LET a == [w EXCEPT !.accepted = @ + 1] IN
            IF wst.in_flight # 0 /\ ~JobDone(wst.in_flight)
            THEN wst' = [a EXCEPT !.pc = "join",
                                  !.job[wst.in_flight].must_cancel = TRUE,
                                  !.superseded = @ \cup {wst.in_flight}]
            ELSE wst' = CreateJob(a)
    /\ UNCHANGED <<sessionVars, bq, voice, dec, brk, mig, vs, lb, fv, gs, gt, qs, ar, tc, ut>>

\* the cancelled stream_tts task is resumed with CancelledError at its
\* await; "except asyncio.CancelledError: raise" and the finally clause
\* cancel the producer, and the task ends cancelled (webui.py:2240-2250)
J_Cancelled(j) ==
    /\ JobRunning(j)
    /\ wst.job[j].must_cancel
    /\ wst' = [wst EXCEPT !.job[j].pc = "cancelled"]
    /\ UNCHANGED <<sessionVars, bq, voice, dec, brk, mig, vs, lb, fv, gs, gt, qs, ar, tc, ut>>

\* the handler's await of the cancelled task returns
WS_Joined ==
    /\ wst.pc = "join"
    /\ JobDone(wst.in_flight)
    /\ wst' = JoinCancelled(wst)
    /\ UNCHANGED <<sessionVars, bq, voice, dec, brk, mig, vs, lb, fv, gs, gt, qs, ar, tc, ut>>

\* get_tts_stream returns and the start frame is sent, or it raises and an
\* error frame is sent (webui.py:2225-2232)
J_Opened(j, ok) ==
    /\ wst.job[j].pc = "opening"
    /\ ~wst.job[j].must_cancel
    /\ wst' = IF ok
              THEN [wst EXCEPT !.job[j].pc = "streaming",
                               !.sent = Append(@, <<j, "start">>)]
              ELSE [wst EXCEPT !.job[j].pc = "done",
                               !.sent = Append(@, <<j, "error">>)]
    /\ UNCHANGED <<sessionVars, bq, voice, dec, brk, mig, vs, lb, fv, gs, gt, qs, ar, tc, ut>>

\* stream.read returns a chunk and it is sent (webui.py:2236-2239)
J_Chunk(j) ==
    /\ wst.job[j].pc = "streaming"
    /\ ~wst.job[j].must_cancel
    /\ wst.job[j].chunks < MaxChunks
    /\ wst' = [wst EXCEPT !.job[j].chunks = @ + 1,
                          !.sent = Append(@, <<j, "binary">>)]
    /\ UNCHANGED <<sessionVars, bq, voice, dec, brk, mig, vs, lb, fv, gs, gt, qs, ar, tc, ut>>

\* stream.read returns b"": the loop ends and the producer is awaited
J_Eof(j) ==
    /\ wst.job[j].pc = "streaming"
    /\ ~wst.job[j].must_cancel
    /\ wst.job[j].chunks > 0
    /\ wst' = [wst EXCEPT !.job[j].pc = "ending"]
    /\ UNCHANGED <<sessionVars, bq, voice, dec, brk, mig, vs, lb, fv, gs, gt, qs, ar, tc, ut>>

\* the producer has ended: the end frame, or the error frame when it raised
\* (webui.py:2240-2247)
J_End(j, ok) ==
    /\ wst.job[j].pc = "ending"
    /\ ~wst.job[j].must_cancel
    /\ wst' = [wst EXCEPT !.job[j].pc = "done",
                          !.sent = Append(@, <<j, IF ok THEN "end"
                                                  ELSE "error">>)]
    /\ UNCHANGED <<sessionVars, bq, voice, dec, brk, mig, vs, lb, fv, gs, gt, qs, ar, tc, ut>>

\* a close frame or the end of the socket: the finally clause cancels a job
\* still in flight and awaits it (webui.py:2280-2286)
WS_Close ==
    /\ wst.pc = "recv"
    /\ IF wst.in_flight # 0 /\ ~JobDone(wst.in_flight)
       THEN wst' = [wst EXCEPT !.pc = "closing",
                               !.job[wst.in_flight].must_cancel = TRUE]
       ELSE wst' = [wst EXCEPT !.pc = "closed"]
    /\ UNCHANGED <<sessionVars, bq, voice, dec, brk, mig, vs, lb, fv, gs, gt, qs, ar, tc, ut>>

WS_Closed ==
    /\ wst.pc = "closing"
    /\ JobDone(wst.in_flight)
    /\ wst' = [wst EXCEPT !.pc = "closed",
                          !.raised = wst.job[wst.in_flight].pc = "cancelled"]
    /\ UNCHANGED <<sessionVars, bq, voice, dec, brk, mig, vs, lb, fv, gs, gt, qs, ar, tc, ut>>

\* ------------------------------- utils/tts_pipeline.py: per-voice cooldown
\* One voice v other than fallback_voice.  fv.present says that
\* failed_voices has an entry for v, fv.failures and fv.cooldown_until are
\* that entry, fv.clock is time.monotonic() in seconds, fv.streams the
\* streams opened for v whose producer has not ended yet.
\* History: streak is the number of failures recorded for v since the last
\* success recorded for it, since the time of the latest failure that made or
\* kept the streak at the threshold or above (-1: none), got the answer of the
\* latest get_tts_stream that asked for v.
VOICE_FAILURE_THRESHOLD == 3

VOICE_COOLDOWN_DURATION == 300

NewFailedVoices ==
    [present |-> FALSE, failures |-> 0, cooldown_until |-> 0, clock |-> 1,
     streams |-> 0, ngets |-> 0, streak |-> 0, since |-> -1,
     got |-> "none"]

\* mark_voice_failed(v), tts_pipeline.py:60-66
mark_voice_failed(f) ==
    LET n == f.failures + 1 IN
    [f EXCEPT !.present = TRUE,
              !.failures = n,
              !.cooldown_until = IF n >= VOICE_FAILURE_THRESHOLD
                                 THEN f.clock + VOICE_COOLDOWN_DURATION
                                 ELSE @]

\* mark_voice_success(v), tts_pipeline.py:69-75
mark_voice_success(f) ==
    IF ~f.present THEN f
    ELSE LET n == IF f.failures > 0 THEN f.failures - 1 ELSE 0 IN
         [f EXCEPT !.failures = n,
                   !.cooldown_until = IF n = 0 THEN 0 ELSE @]

\* the cooldown of v has run out, tts_pipeline.py:83
CooldownOver(f) == f.cooldown_until # 0 /\ f.clock >= f.cooldown_until

\* the value of is_voice_available(v), tts_pipeline.py:78-88
is_voice_available(f) ==
    \/ ~f.present
    \/ CooldownOver(f)
    \/ f.failures < VOICE_FAILURE_THRESHOLD

\* failed_voices[v] after is_voice_available(v)
AfterAvailable(f) ==
    IF f.present /\ CooldownOver(f)
    THEN [f EXCEPT !.failures = 0, !.cooldown_until = 0]
    ELSE f

\* get_tts_stream(text, v): the voice is resolved (tts_pipeline.py:361-363)
\* and a stream is opened for it, for v itself when v is available
VF_Get ==
    /\ fv.ngets < MaxGets
    /\ fv.streams < MaxStreams
    /\ LET f == AfterAvailable(fv) IN
       fv' = IF is_voice_available(fv)
             THEN [f EXCEPT !.ngets = @ + 1, !.streams = @ + 1,
                            !.got = "requested"]
             ELSE [f EXCEPT !.ngets = @ + 1, !.got = "fallback"]
    /\ UNCHANGED <<sessionVars, bq, voice, dec, brk, mig, vs, lb, wst, gs, gt, qs, ar, tc, ut>>

\* a stream of v fails with a 5xx answer or a decode error, or both
\* providers fail (tts_pipeline.py:319, 338, 388): mark_voice_failed(v)
VF_Failed ==
    /\ fv.streams > 0
    /\ LET f == mark_voice_failed(fv)
           k == fv.streak + 1
       IN  fv' = [f EXCEPT !.streams = @ - 1,
                           !.streak = k,
                           !.since = IF k >= VOICE_FAILURE_THRESHOLD
                                     THEN fv.clock ELSE @]
    /\ UNCHANGED <<sessionVars, bq, voice, dec, brk, mig, vs, lb, wst, gs, gt, qs, ar, tc, ut>>

\* the producer of a stream of v ends well (tts_pipeline.py:335):
\* mark_voice_success(v)
VF_Success ==
    /\ fv.streams > 0
    /\ fv' = [mark_voice_success(fv) EXCEPT !.streams = @ - 1, !.streak = 0]
    /\ UNCHANGED <<sessionVars, bq, voice, dec, brk, mig, vs, lb, wst, gs, gt, qs, ar, tc, ut>>

\* time.monotonic() advances
VF_Tick ==
    /\ fv.clock + VoiceStep <= 1 + MaxVoiceTicks * VoiceStep
    /\ fv' = [fv EXCEPT !.clock = @ + VoiceStep]
    /\ UNCHANGED <<sessionVars, bq, voice, dec, brk, mig, vs, lb, wst, gs, gt, qs, ar, tc, ut>>

\* ------------------------------ utils/guild_settings_store.py, one guild
\* A settings record has seven of the settings: max_tts_chars,
\* leave_when_alone, allowlist_text_channel_ids (a list of channel ids),
\* fallback_voice, default_voice_id, restrict_voices and allowed_voice_ids.
\* The guild_settings table (db.py:295-415) has no column for the allowlist.
\* A patch gives each key a value or Absent; its key "bogus" is not a
\* setting.  In a patch leave_when_alone is an integer (bool(v) is taken)
\* and the allowlist is the list of one channel id; the voice keys are
\* optional values, None for a key the patch does not have.  The database
\* is connected: its calls do not raise.
\* gs.cache is _cache.get(guild) and gs.db the guild's row, each as <<>> or
\* <<record>>; gs.locked and gs.waiters are the store's asyncio.Lock;
\* gs.proc[c] is caller c: its operation, its patch, the lock and cache and
\* row it found when it got the lock, and what it returned or raised.
\* History: serial is the record that the updates committed so far give
\* when applied one after the other, hist the records serial has been,
\* from the length of hist when the caller's operation began.
Absent == -1

MAX_TTS_CHARS == 300

MaxTtsCharsLimit == 2000

DEFAULT_SETTINGS ==
    [max_tts_chars |-> MAX_TTS_CHARS, leave_when_alone |-> TRUE,
     allowlist_text_channel_ids |-> <<>>,
     fallback_voice |-> FALLBACK_VOICE, default_voice_id |-> FALLBACK_VOICE,
     restrict_voices |-> FALSE, allowed_voice_ids |-> ALL_VOICE_IDS]

NoPatch ==
    [max_tts_chars |-> Absent, leave_when_alone |-> Absent,
     allowlist_text_channel_ids |-> Absent, bogus |-> Absent,
     fallback_voice |-> None, default_voice_id |-> None,
     restrict_voices |-> None, allowed_voice_ids |-> None]

\* the patches a caller sends
Patches ==
    { [NoPatch EXCEPT !.max_tts_chars = 200],
      [NoPatch EXCEPT !.leave_when_alone = 0],
      [NoPatch EXCEPT !.max_tts_chars = 100, !.leave_when_alone = 0],
      [NoPatch EXCEPT !.max_tts_chars = 0, !.leave_when_alone = 0],
      [NoPatch EXCEPT !.allowlist_text_channel_ids = 5],
      [NoPatch EXCEPT !.leave_when_alone = 0, !.bogus = 1] }

\* a check that knows every key
UnknownKeyIgnored(patch) == FALSE

\* "k not in DEFAULT_SETTINGS" for some key of the patch
HasUnknownKey(patch) == patch.bogus # Absent

\* the loop of settings_schema.py:81-90: each item stripped, the empty ones
\* and those seen before skipped
RECURSIVE CleanedAllowed(_, _)
CleanedAllowed(items, seen) ==
    IF items = <<>> THEN <<>>
    ELSE LET v == Strip(Head(items)) IN
         IF v = <<>> \/ v \in seen THEN CleanedAllowed(Tail(items), seen)
         ELSE <<v>> \o CleanedAllowed(Tail(items), seen \cup {v})

\* the value of key k of the patch, or else that of the current record
Either(o, cur) == IF o = None THEN cur ELSE o[1]

\* merged[k] = v for the keys of the patch; bool(v), the cleaning of the
\* allowlist (ids <= 0 are skipped), str(v).strip() of the two voices and
\* the cleaning of allowed_voice_ids are those of validate_settings
Merged(current, patch) ==
    [fallback_voice |-> Strip(Either(patch.fallback_voice,
                                     current.fallback_voice)),
     default_voice_id |-> Strip(Either(patch.default_voice_id,
                                       current.default_voice_id)),
     restrict_voices |-> Either(patch.restrict_voices,
                                current.restrict_voices),
     allowed_voice_ids |->
        CleanedAllowed(Either(patch.allowed_voice_ids,
                              current.allowed_voice_ids), {}),
     max_tts_chars |->
        IF patch.max_tts_chars = Absent THEN current.max_tts_chars
        ELSE patch.max_tts_chars,
     leave_when_alone |->
        IF patch.leave_when_alone = Absent THEN current.leave_when_alone
        ELSE patch.leave_when_alone # 0,
     allowlist_text_channel_ids |->
        IF patch.allowlist_text_channel_ids = Absent
        THEN current.allowlist_text_channel_ids
        ELSE IF patch.allowlist_text_channel_ids <= 0 THEN <<>>
        ELSE <<patch.allowlist_text_channel_ids>>]

\* elements of a list
Range(seq) == {seq[i] : i \in DOMAIN seq}

\* a validator that checks max_tts_chars alone
InvalidChars(merged) ==
    merged.max_tts_chars < 1 \/ merged.max_tts_chars > MaxTtsCharsLimit

\* validate_settings raises SettingsValidationError: settings_schema.py:38,
\* 43, 48 and 121-129
Invalid(merged) ==
    \/ merged.max_tts_chars < 1 \/ merged.max_tts_chars > MaxTtsCharsLimit
    \/ merged.fallback_voice = <<>>
    \/ merged.default_voice_id = <<>>
    \/ /\ merged.restrict_voices
       /\ \/ merged.allowed_voice_ids = <<>>
          \/ merged.fallback_voice \notin Range(merged.allowed_voice_ids)
          \/ merged.default_voice_id \notin Range(merged.allowed_voice_ids)

\* the row upsert_guild_settings and ensure_guild_settings write
RowOf(settings) ==
    [max_tts_chars |-> settings.max_tts_chars,
     leave_when_alone |-> IF settings.leave_when_alone THEN 1 ELSE 0,
     fallback_voice |-> settings.fallback_voice,
     default_voice_id |-> settings.default_voice_id,
     restrict_voices |-> IF settings.restrict_voices THEN 1 ELSE 0,
     allowed_voice_ids |-> settings.allowed_voice_ids]

\* get_guild_settings: validate_settings of the row's columns
FromRow(row) ==
    [max_tts_chars |-> row.max_tts_chars,
     leave_when_alone |-> row.leave_when_alone # 0,
     allowlist_text_channel_ids |->
        DEFAULT_SETTINGS.allowlist_text_channel_ids,
     fallback_voice |-> Strip(row.fallback_voice),
     default_voice_id |-> Strip(row.default_voice_id),
     restrict_voices |-> row.restrict_voices # 0,
     allowed_voice_ids |-> CleanedAllowed(row.allowed_voice_ids, {})]

IdleCall ==
    [pc |-> "idle", op |-> "none", patch |-> NoPatch,
     hadCache |-> <<>>, hadRow |-> <<>>, ret |-> "none", result |-> <<>>,
     from |-> 0]

NewStore(row) ==
    [cache |-> <<>>, db |-> row, locked |-> FALSE, waiters |-> <<>>,
     proc |-> [c \in SettingsCallers |-> IdleCall], ncalls |-> 0,
     serial |-> IF row = <<>> THEN DEFAULT_SETTINGS ELSE FromRow(row[1]),
     hist |-> <<IF row = <<>> THEN DEFAULT_SETTINGS ELSE FromRow(row[1])>>]

\* a lock that lets every caller in
LockIgnored == TRUE

\* asyncio.Lock: free, and nobody queued for it
LockFree == ~gs.locked /\ gs.waiters = <<>>

\* "async with self._lock" is left: c returns the record or raises
Leave(g, c, ret, result) ==
    [g EXCEPT !.locked = FALSE,
              !.proc[c].pc = "done",
              !.proc[c].ret = ret,
              !.proc[c].result = result]

\* get and update once _get_locked has returned current (the cache holds it)
WithCurrent(g, c, current) ==
    LET patch == g.proc[c].patch
        merged == Merged(current, patch)
    IN  IF g.proc[c].op = "get" THEN Leave(g, c, "ok", <<current>>)
        ELSE IF HasUnknownKey(patch) THEN Leave(g, c, "unknown", <<>>)
        ELSE IF Invalid(merged) THEN Leave(g, c, "invalid", <<>>)
        ELSE [g EXCEPT !.proc[c].pc = "upsert",
                       !.proc[c].result = <<merged>>]

\* c has the lock: invalidate pops the cached record
\* (guild_settings_store.py:56-58); get and update run _get_locked up to its
\* first await, or to the end
Enter(g, c) ==
    LET h == [g EXCEPT !.locked = TRUE,
                       !.proc[c].hadCache = g.cache,
                       !.proc[c].hadRow = g.db]
    IN  IF g.proc[c].op = "invalidate"
        THEN Leave([h EXCEPT !.cache = <<>>], c, "ok", <<>>)
        ELSE IF g.cache # <<>> THEN WithCurrent(h, c, g.cache[1])
        ELSE [h EXCEPT !.proc[c].pc = "select"]

\* the callers are alike: a call takes the first one that is not in a call
AtRest(c) ==
    gs.proc[c].pc \in {"idle", "done"}

FirstAtRest(c) ==
    /\ AtRest(c)
    /\ c = "y" => ~AtRest("x")
    /\ c = "z" => ~AtRest("x") /\ ~AtRest("y")

\* a caller starts get(guild) or update(guild, patch)
GS_Call(c, op, patch) ==
    /\ FirstAtRest(c)
    /\ gs.ncalls < MaxSettingsCalls
    /\ op # "update" => patch = NoPatch
    /\ LET g == [gs EXCEPT !.ncalls = @ + 1,
                           !.proc[c] = [IdleCall EXCEPT !.op = op,
                                                        !.patch = patch,
                                                        !.from = Len(gs.hist)]]
       IN  gs' = IF LockFree THEN Enter(g, c)
                 ELSE [g EXCEPT !.proc[c].pc = "wait",
                                !.waiters = Append(@, c)]
    /\ UNCHANGED <<sessionVars, bq, voice, dec, brk, mig, vs, lb, wst, fv, gt, qs, ar, tc, ut>>

\* the first waiter gets the lock
GS_Acquire(c) ==
    /\ gs.proc[c].pc = "wait"
    /\ ~gs.locked
    /\ Head(gs.waiters) = c
    /\ gs' = Enter([gs EXCEPT !.waiters = Tail(@)], c)
    /\ UNCHANGED <<sessionVars, bq, voice, dec, brk, mig, vs, lb, wst, fv, gt, qs, ar, tc, ut>>

\* db.get_guild_settings has returned (guild_settings_store.py:23-31)
GS_Selected(c) ==
    /\ gs.proc[c].pc = "select"
    /\ gs' = IF gs.db = <<>>
             THEN [gs EXCEPT !.proc[c].pc = "ensure"]
             ELSE LET settings == FromRow(gs.db[1]) IN
                  WithCurrent([gs EXCEPT !.cache = <<settings>>], c, settings)
    /\ UNCHANGED <<sessionVars, bq, voice, dec, brk, mig, vs, lb, wst, fv, gt, qs, ar, tc, ut>>

\* db.ensure_guild_settings has inserted the defaults (ON CONFLICT DO
\* NOTHING) and the cache takes them
GS_Ensured(c) ==
    /\ gs.proc[c].pc = "ensure"
    /\ LET g == [gs EXCEPT !.db = IF gs.db = <<>>
                                  THEN <<RowOf(DEFAULT_SETTINGS)>> ELSE @,
                           !.cache = <<DEFAULT_SETTINGS>>]
       IN  gs' = WithCurrent(g, c, DEFAULT_SETTINGS)
    /\ UNCHANGED <<sessionVars, bq, voice, dec, brk, mig, vs, lb, wst, fv, gt, qs, ar, tc, ut>>

\* db.upsert_guild_settings has returned: the cache takes the cleaned
\* record and update returns it (guild_settings_store.py:51-54)
GS_Upserted(c) ==
    /\ gs.proc[c].pc = "upsert"
    /\ LET cleaned == gs.proc[c].result[1]
           next == Merged(gs.serial, gs.proc[c].patch)
           g == [gs EXCEPT !.db = <<RowOf(cleaned)>>,
                           !.cache = <<cleaned>>,
                           !.serial = next,
                           !.hist = Append(@, next)]
       IN  gs' = Leave(g, c, "ok", <<cleaned>>)
    /\ UNCHANGED <<sessionVars, bq, voice, dec, brk, mig, vs, lb, wst, fv, gt, qs, ar, tc, ut>>

\* ------------------------------ utils/tts_pipeline.py: get_tts_stream
\* One caller of get_tts_stream at a time, with the two circuit breakers,
\* the failed_voices entry of one TikTok voice and the clock. A call keeps
\* the providers it contacted, the error bound by "except Exception as
\* primary_error", the error of the latest failure and the QueueStream;
\* tiktok_open records whether the breaker of the primary provider was open
\* when the call was made.
MAX_RETRIES == 2

OtherVoice == "en_us_c3po"

TikTokFallback == "en_us_001"

GoogleVoice == "google_translate"

RequestVoices == {"", OtherVoice, TikTokFallback, GoogleVoice}

FallbackVoices == {TikTokFallback, GoogleVoice}

\* is_google_voice, tts_pipeline.py:91-92
is_google_voice(v) == v = GoogleVoice

BreakerOf(v) == IF is_google_voice(v) THEN "google" ELSE "tiktok"

NoError == [path |-> "none", n |-> 0]

IdleStreamCall ==
    [pc |-> "idle", voice_id |-> "", fallback_voice |-> TikTokFallback,
     requested |-> "", attempt |-> 0, t0 |-> 0,
     primary_error |-> NoError, last_error |-> NoError,
     contacts |-> <<>>, refused |-> {}, marked |-> FALSE,
     tiktok_open |-> FALSE,
     stream |-> <<>>, ret |-> "none", err |-> NoError]

BreakerState(name) ==
    [failure_threshold |-> IF name = "tiktok" THEN TIKTOK_THRESHOLD
                           ELSE GOOGLE_THRESHOLD,
     reset_timeout |-> IF name = "tiktok" THEN TIKTOK_RESET ELSE GOOGLE_RESET,
     failures |-> 0, open_until |-> 0]

NewStreamCalls ==
    [clock |-> 1,
     breakers |-> [b \in Breakers |-> BreakerState(b)],
     status |-> [present |-> FALSE, failures |-> 0, cooldown_until |-> 0,
                 clock |-> 1],
     call |-> IdleStreamCall, ncalls |-> 0]

\* mark_voice_failed(v); the entry of OtherVoice is the one kept
MarkFailed(g, v) ==
    IF v = OtherVoice THEN [g EXCEPT !.status = mark_voice_failed(@)] ELSE g

\* CircuitBreaker.execute after func() returned or raised
ExecOk(g, name) ==
    [g EXCEPT !.breakers[name].failures = 0,
              !.breakers[name].open_until = 0]

ExecFailed(g, name) ==
    LET b == [g.breakers[name] EXCEPT !.failures = @ + 1] IN
    [g EXCEPT !.breakers[name] =
        IF Tripped(b) THEN [b EXCEPT !.open_until = g.call.t0 + b.reset_timeout]
        ELSE b]

\* raising the error of the latest failure
RaisedLatest(c) == c.last_error

\* "raise primary_error", tts_pipeline.py:397
RaisedError(c) == c.primary_error

\* every path failed: stream.close() and raise (tts_pipeline.py:396-397)
Fail(g) ==
    [g EXCEPT !.call.pc = "done",
              !.call.stream = Append(@, "eof"),
              !.call.ret = "raised",
              !.call.err = RaisedError(g.call)]

\* a path opened its stream: return stream, producer_task
Succeed(g) ==
    [g EXCEPT !.call.pc = "done", !.call.ret = "ok"]

\* the third path, tts_pipeline.py:386-394
EnterFbVoice(g) ==
    IF ~is_google_voice(g.call.requested)
       /\ g.call.requested # g.call.fallback_voice
    THEN [MarkFailed(g, g.call.requested) EXCEPT
              !.call.pc = "fbvoice", !.call.attempt = 0, !.call.marked = TRUE]
    ELSE Fail(g)

\* the second path, tts_pipeline.py:377-384: the fallback provider under its
\* breaker, which may refuse
EnterGoogle(g) ==
    IF is_google_voice(g.call.requested) THEN EnterFbVoice(g)
    ELSE IF FailFast(g.breakers["google"], g.clock)
    THEN EnterFbVoice([g EXCEPT
             !.call.last_error = [path |-> "google", n |-> 0],
             !.call.refused = @ \cup {"google"}])
    ELSE [g EXCEPT !.call.pc = "google", !.call.attempt = 0,
                   !.call.t0 = g.clock]

\* retrying one attempt more than max_retries allows
LastAttemptLate(n) == n > MAX_RETRIES

\* "if attempt >= max_retries: raise", tts_pipeline.py:100
LastAttempt(n) == n >= MAX_RETRIES

\* get_tts_stream(text, v, fallback_voice=fb) up to its first await
\* (tts_pipeline.py:359-374): the voice is resolved and the breaker of its
\* provider runs the first attempt, or refuses
GT_Call(v, fb) ==
    /\ gt.call.pc \in {"idle", "done"}
    /\ gt.ncalls < MaxTtsCalls
    /\ LET first == IF v # "" THEN v ELSE fb
           avail == first = OtherVoice => is_voice_available(gt.status)
           requested == IF avail THEN first ELSE fb
           g == [gt EXCEPT
                   !.ncalls = @ + 1,
                   !.status = IF first = OtherVoice THEN AfterAvailable(@)
                              ELSE @,
                   !.call = [IdleStreamCall EXCEPT
                                !.voice_id = v, !.fallback_voice = fb,
                                !.requested = requested, !.t0 = gt.clock,
                                !.tiktok_open =
                                    FailFast(gt.breakers["tiktok"], gt.clock)]]
       IN  gt' = IF FailFast(gt.breakers[BreakerOf(requested)], gt.clock)
                 THEN EnterGoogle([g EXCEPT
                          !.call.primary_error = [path |-> "primary", n |-> 0],
                          !.call.last_error = [path |-> "primary", n |-> 0],
                          !.call.refused = {"primary"}])
                 ELSE [g EXCEPT !.call.pc = "primary"]
    /\ UNCHANGED <<sessionVars, bq, voice, dec, brk, mig, vs, lb, wst, fv, gs, qs, ar, tc, ut>>

\* one attempt on a provider ends: _open_google_stream or
\* _open_tiktok_stream returns the producer task or raises; a 5xx answer of
\* TikTok marks the voice of the attempt failed (tts_pipeline.py:317-319)
GT_Attempt(outcome) ==
    /\ gt.call.pc \in {"primary", "google", "fbvoice"}
    /\ LET c == gt.call
           stage == c.pc
           spoken == IF stage = "primary" THEN c.requested
                    ELSE IF stage = "google" THEN GoogleVoice
                    ELSE c.fallback_voice
           prov == IF stage = "primary" THEN BreakerOf(c.requested)
                   ELSE IF stage = "google" THEN "google" ELSE "tiktok"
           err == [path |-> stage, n |-> c.attempt + 1]
           g0 == [gt EXCEPT !.call.contacts =
                     Append(@, [stage |-> stage, provider |-> prov,
                                voice |-> spoken, ok |-> outcome = "ok"])]
           g1 == IF outcome = "http5xx" THEN MarkFailed(g0, spoken) ELSE g0
           g2 == [g1 EXCEPT !.call.last_error = err]
       IN  /\ outcome = "http5xx" => prov = "tiktok"
           /\ gt' =
                IF outcome = "ok"
                THEN IF stage = "fbvoice" THEN Succeed(g1)
                     ELSE Succeed(ExecOk(g1, prov))
                ELSE IF stage = "google"
                THEN EnterFbVoice(ExecFailed(g2, "google"))
                ELSE IF ~LastAttempt(c.attempt)
                THEN [g2 EXCEPT !.call.attempt = @ + 1]
                ELSE IF stage = "primary"
                THEN EnterGoogle([ExecFailed(g2, prov) EXCEPT
                                     !.call.primary_error = err])
                ELSE Fail(g2)
    /\ UNCHANGED <<sessionVars, bq, voice, dec, brk, mig, vs, lb, wst, fv, gs, qs, ar, tc, ut>>

\* time.monotonic() advances
GT_Tick ==
    /\ gt.clock + TtsStep <= 1 + MaxTtsTicks * TtsStep
    /\ gt' = [gt EXCEPT !.clock = @ + TtsStep, !.status.clock = @ + TtsStep]
    /\ UNCHANGED <<sessionVars, bq, voice, dec, brk, mig, vs, lb, wst, fv, gs, qs, ar, tc, ut>>

\* ------------------- utils/tts_pipeline.py: QueueStream and its producer
\* The state right after get_tts_stream returned (stream, producer_task) to
\* one caller.  qs.queue is QueueStream.queue (a chunk is its length, 0 stands
\* for None), qs.buffer and qs.closed are the reader's fields.  qs.prod is the
\* producer task (left: chunks the provider still has to send), qs.caller the
\* coroutine that called get_tts_stream, qs.rd the thread inside
\* QueueStream.read, qs.ready the event loop's FIFO of runnable tasks.
\* The callers: play_tts (tts.py:435-451, the player thread reads until EOF),
\* api_voice_preview (webui.py:1988-2019) and stream_tts of ws_tts
\* (webui.py:2227-2254), which read through asyncio.to_thread and may be
\* cancelled.  History: closes counts the None the producer put, eofs the
\* reads that returned b"".
StreamKinds == {"play_tts", "preview", "ws"}

NewStream(kind, provider, left, suspended) ==
    [kind |-> kind, provider |-> provider,
     queue |-> <<>>, buffer |-> 0, closed |-> FALSE,
     prod |-> [pc |-> "created", must_cancel |-> FALSE, evt |-> "none",
               len |-> 0, left |-> left, fed |-> 0],
     caller |-> [pc |-> IF suspended THEN "pre" ELSE "reading",
                 must_cancel |-> FALSE],
     rd |-> [pc |-> IF suspended THEN "idle" ELSE "read", last |-> 0 - 1],
     ready |-> <<"producer">>, closes |-> 0, eofs |-> 0]

InReady(q, t) == \E i \in 1..Len(q.ready) : q.ready[i] = t

\* loop.call_soon of a task's next step
Wake(q, t) ==
    IF InReady(q, t) THEN q ELSE [q EXCEPT !.ready = Append(@, t)]

\* task.done() of the producer
ProducerEnded(q) == q.prod.pc \in {"done", "raised", "cancelled"}

\* QueueStream.close, tts_pipeline.py:113-114
CloseStream(q) == [q EXCEPT !.queue = Append(@, 0)]

\* QueueStream.feed, tts_pipeline.py:110-111
Feed(q, n) == [q EXCEPT !.queue = Append(@, n), !.prod.fed = @ + 1]

\* a producer that closes the stream only when it fed every byte
ProducerExitOnSuccess(q, how) ==
    LET c == IF how = "done"
             THEN [CloseStream(q) EXCEPT !.closes = @ + 1] ELSE q
        e == [c EXCEPT !.prod.pc = how, !.prod.evt = "none"]
    IN  IF e.caller.pc \in {"join", "cancel_join"} THEN Wake(e, "caller")
        ELSE e

\* the finally clause of producer (tts_pipeline.py:288-291 and 340-343):
\* stream.close(), and the task is done; a coroutine awaiting it is woken
ProducerExit(q, how) ==
    LET c == [CloseStream(q) EXCEPT !.closes = @ + 1]
        e == [c EXCEPT !.prod.pc = how, !.prod.evt = "none"]
    IN  IF e.caller.pc \in {"join", "cancel_join"} THEN Wake(e, "caller")
        ELSE e

\* producer_task.cancel(): nothing once the task is done; otherwise the
\* task is resumed with CancelledError at its next step
CancelProducer(q) ==
    IF ProducerEnded(q) THEN q
    ELSE Wake([q EXCEPT !.prod.must_cancel = TRUE], "producer")

\* the producer's next step.  A task cancelled before its first step ends
\* without running any of its body; otherwise the body runs inside the try:
\* a chunk is fed, the end of the response ends the task (the TikTok decoder
\* raises when it fed nothing, tts_pipeline.py:273-274), an error or a
\* cancellation leaves through the finally clause
P_Step ==
    /\ qs.ready # <<>> /\ Head(qs.ready) = "producer"
    /\ LET q == [qs EXCEPT !.ready = Tail(@)]
           p == qs.prod
       IN  qs' =
             IF p.pc = "created"
             THEN IF p.must_cancel
                  THEN [q EXCEPT !.prod.pc = "cancelled"]
                  ELSE [q EXCEPT !.prod.pc = "reading"]
             ELSE IF p.must_cancel THEN ProducerExit(q, "cancelled")
             ELSE IF p.evt = "chunk"
             THEN [(IF p.len > 0 THEN Feed(q, p.len) ELSE q) EXCEPT
                      !.prod.evt = "none", !.prod.left = @ - 1]
             ELSE IF p.evt = "eof"
             THEN IF q.provider = "tiktok" /\ p.fed = 0
                  THEN ProducerExit(q, "raised")
                  ELSE ProducerExit(q, "done")
             ELSE ProducerExit(q, "raised")
    /\ UNCHANGED <<sessionVars, bq, voice, dec, brk, mig, vs, lb, wst, fv, gs, gt, ar, tc, ut>>

\* the provider's response moves on while the producer awaits it: a chunk
\* of n decoded bytes (none while the TikTok decoder is still in the JSON
\* prefix), the end of the body, or an error (a reset, the 15 s timeout of
\* the session, invalid base64)
N_Event(evt, n) ==
    /\ qs.prod.pc = "reading" /\ qs.prod.evt = "none"
    /\ ~qs.prod.must_cancel
    /\ evt = "chunk" => /\ qs.prod.left > 0
                        /\ n = 0 => qs.provider = "tiktok"
    /\ evt = "eof" => qs.prod.left = 0 /\ n = 0
    /\ evt = "error" => n = 0
    /\ qs' = Wake([qs EXCEPT !.prod.evt = evt, !.prod.len = n], "producer")
    /\ UNCHANGED <<sessionVars, bq, voice, dec, brk, mig, vs, lb, wst, fv, gs, gt, ar, tc, ut>>

\* QueueStream.read(size), tts_pipeline.py:116-135: one queue.get() of the
\* loop "while len(self.buffer) < size and not self.closed"
R_Get ==
    /\ qs.rd.pc = "read"
    /\ qs.buffer < ReadSize /\ ~qs.closed
    /\ qs.queue # <<>>
    /\ qs' = IF Head(qs.queue) = 0
             THEN [qs EXCEPT !.queue = Tail(@), !.closed = TRUE]
             ELSE [qs EXCEPT !.queue = Tail(@),
                             !.buffer = @ + Head(qs.queue)]
    /\ UNCHANGED <<sessionVars, bq, voice, dec, brk, mig, vs, lb, wst, fv, gs, gt, ar, tc, ut>>

\* read returns min(size, len(buffer)) bytes.  The player thread of play_tts
\* reads again until it gets b"" and then sets the done event; a
\* to_thread read ends the thread and resumes the caller that awaits it
R_Return ==
    /\ qs.rd.pc = "read"
    /\ qs.buffer >= ReadSize \/ qs.closed
    /\ LET n == IF qs.buffer < ReadSize THEN qs.buffer ELSE ReadSize
           q == [qs EXCEPT !.buffer = @ - n, !.rd.last = n,
                           !.eofs = IF n = 0 THEN 1 ELSE @]
           waited == q.caller.pc = "reading" /\ ~q.caller.must_cancel
       IN  qs' =
             IF qs.kind = "play_tts" /\ n > 0 THEN q
             ELSE IF waited THEN Wake([q EXCEPT !.rd.pc = "idle"], "caller")
             ELSE [q EXCEPT !.rd.pc = "idle"]
    /\ UNCHANGED <<sessionVars, bq, voice, dec, brk, mig, vs, lb, wst, fv, gs, gt, ar, tc, ut>>

\* the await before the try block of a web caller completes
\* (resp.prepare at webui.py:2001, the start frame at webui.py:2233)
X_Prepared ==
    /\ qs.caller.pc = "pre" /\ ~qs.caller.must_cancel
    /\ ~InReady(qs, "caller")
    /\ qs' = Wake(qs, "caller")
    /\ UNCHANGED <<sessionVars, bq, voice, dec, brk, mig, vs, lb, wst, fv, gs, gt, ar, tc, ut>>

\* the caller's task is cancelled (the client went away, or a new text
\* frame superseded the job).  Awaiting producer_task, the cancellation is
\* passed on to the producer and the caller resumes when it has ended;
\* at any other await the caller resumes next
X_Cancel ==
    /\ qs.kind # "play_tts"
    /\ ~qs.caller.must_cancel
    /\ qs.caller.pc \in {"pre", "reading", "join"}
    /\ LET q == [qs EXCEPT !.caller.must_cancel = TRUE] IN
       qs' = IF InReady(qs, "caller") THEN q
             ELSE IF qs.caller.pc = "join" THEN CancelProducer(q)
             ELSE Wake(q, "caller")
    /\ UNCHANGED <<sessionVars, bq, voice, dec, brk, mig, vs, lb, wst, fv, gs, gt, ar, tc, ut>>

\* the caller leaves: api_voice_preview closes the stream in its finally
\* clause (webui.py:2017-2019)
CallerEnd(q, how) ==
    [(IF q.kind = "preview" THEN CloseStream(q) ELSE q) EXCEPT
        !.caller.pc = how]

\* "await producer_task" at the end of the normal path
JoinProducer(q) ==
    IF ProducerEnded(q) THEN CallerEnd(q, "done")
    ELSE [q EXCEPT !.caller.pc = "join"]

\* CancelledError reaches the caller inside its try block: api_voice_preview
\* closes the stream, cancels the producer and awaits it (webui.py:2012-
\* 2016); stream_tts cancels and awaits a producer that is not done
\* (webui.py:2250-2254)
CallerCancelled(q) ==
    LET c == IF q.kind = "preview" THEN CloseStream(q) ELSE q IN
    IF ProducerEnded(c) THEN CallerEnd(c, "cancelled")
    ELSE [CancelProducer(c) EXCEPT !.caller.pc = "cancel_join"]

\* the caller's next step
C_Step ==
    /\ qs.ready # <<>> /\ Head(qs.ready) = "caller"
    /\ LET q == [qs EXCEPT !.ready = Tail(@)]
           c == qs.caller
       IN  qs' =
             IF c.pc = "cancel_join" THEN CallerEnd(q, "cancelled")
             ELSE IF c.must_cancel
             THEN IF c.pc = "pre" THEN [q EXCEPT !.caller.pc = "cancelled"]
                  ELSE CallerCancelled(q)
             ELSE IF c.pc = "pre"
             THEN [q EXCEPT !.caller.pc = "reading", !.rd.pc = "read"]
             ELSE IF c.pc = "reading"
             THEN IF q.rd.last = 0 THEN JoinProducer(q)
                  ELSE [q EXCEPT !.rd.pc = "read"]
             ELSE CallerEnd(q, "done")
    /\ UNCHANGED <<sessionVars, bq, voice, dec, brk, mig, vs, lb, wst, fv, gs, gt, ar, tc, ut>>

\* ------------------------------------ cogs/tts.py: on_message (auto-read)
\* The chat messages of one voice channel's chat.  ar.h[i] is the handler of
\* the i-th message: "ec" before ensure_connected, "connecting" inside
\* voice_channel.connect under connect_lock, "upsert" in the database call
\* of _upsert_user_display_name, "name_status" and "name_said" in the
\* database call of get_user_nickname (a status utterance asks for the name
\* before the test of last_speaker_id, a chat line after it), "done" once it
\* returned.  ar.db is the queue of the one aiosqlite connection, which
\* answers in the order asked; ar.cached is user_nickname_cache; the voice
\* of every author is in user_voice_cache.  ar.put is the latest QueueItem:
\* its author, whether it is a status utterance and whether it carries the
\* '<speak_name> said. "<content>"' prefix; ar.n counts the items put.
MessageKinds == {"text", "image", "video", "link"}

NoSpeaker == "none"

IdleHandler == [pc |-> "none", author |-> NoSpeaker, kind |-> "text"]

NewAutoRead ==
    [attached |-> FALSE, locked |-> FALSE, leaving |-> FALSE,
     last_speaker_id |-> NoSpeaker, cached |-> {},
     h |-> [i \in 1..MaxMessages |-> IdleHandler], db |-> <<>>,
     put |-> [author |-> NoSpeaker, status |-> FALSE, prefixed |-> FALSE],
     n |-> 0, nmsg |-> 0, nleave |-> 0]

\* an await of the database: the request joins the connection's queue
DbAsk(a, i, pc) == [a EXCEPT !.db = Append(@, i), !.h[i].pc = pc]

\* "state.last_speaker_id = member.id" and "await state.queue.put(...)" on
\* the unbounded queue (tts.py:857-858): one step
Enqueue(a, i, status, prefixed) ==
    [a EXCEPT !.last_speaker_id = a.h[i].author,
              !.put = [author |-> a.h[i].author, status |-> status,
                       prefixed |-> prefixed],
              !.n = @ + 1, !.h[i].pc = "done"]

\* get_user_speak_name (tts.py:552-556, 480-491): the cached nickname
\* without a suspension, otherwise a database call
NameKnown(a, i) == a.h[i].author \in a.cached

\* "state.last_speaker_id != member.id", tts.py:854
NewSpeaker(a, i) == a.last_speaker_id # a.h[i].author

\* on_message after get_user_voice (tts.py:808-858): the status text of an
\* image, a video or a link, else the prefix when the speaker changed
Compose(a, i) ==
    IF a.h[i].kind # "text"
    THEN IF NameKnown(a, i) THEN Enqueue(a, i, TRUE, FALSE)
         ELSE DbAsk(a, i, "name_status")
    ELSE IF NewSpeaker(a, i)
    THEN IF NameKnown(a, i) THEN Enqueue(a, i, FALSE, TRUE)
         ELSE DbAsk(a, i, "name_said")
    ELSE Enqueue(a, i, FALSE, FALSE)

\* a member sitting in the voice channel writes in its chat: on_message up
\* to "await self.get_settings" (tts.py:773-782)
AR_Message(author, kind) ==
    /\ ar.nmsg < MaxMessages
    /\ ar' = [ar EXCEPT !.nmsg = @ + 1,
                        !.h[ar.nmsg + 1] = [pc |-> "ec", author |-> author,
                                            kind |-> kind]]
    /\ UNCHANGED <<sessionVars, bq, voice, dec, brk, mig, vs, lb, wst, fv, gs, gt, qs, tc, ut>>

\* ensure_connected once connect_lock is free (tts.py:572-626): attached, it
\* returns True and the handler goes on to the upsert; detached, it resets
\* last_speaker_id and awaits the connect under the lock
AR_Ensure(i) ==
    /\ ar.h[i].pc = "ec"
    /\ ~ar.locked
    /\ ar' = IF ar.attached THEN DbAsk(ar, i, "upsert")
             ELSE [ar EXCEPT !.last_speaker_id = NoSpeaker,
                             !.locked = TRUE, !.h[i].pc = "connecting"]
    /\ UNCHANGED <<sessionVars, bq, voice, dec, brk, mig, vs, lb, wst, fv, gs, gt, qs, tc, ut>>

\* voice_channel.connect returns or raises (tts.py:626-686)
AR_Connected(i, ok) ==
    /\ ar.h[i].pc = "connecting"
    /\ ar' = IF ok
             THEN DbAsk([ar EXCEPT !.attached = TRUE, !.locked = FALSE],
                        i, "upsert")
             ELSE [ar EXCEPT !.locked = FALSE, !.h[i].pc = "done"]
    /\ UNCHANGED <<sessionVars, bq, voice, dec, brk, mig, vs, lb, wst, fv, gs, gt, qs, tc, ut>>

\* the database answers its oldest request and the handler that asked runs
\* to its next await
AR_DbDone ==
    /\ ar.db # <<>>
    /\ LET i == Head(ar.db)
           a == [ar EXCEPT !.db = Tail(@)]
           named == [a EXCEPT !.cached = @ \cup {ar.h[i].author}]
       IN  ar' = IF ar.h[i].pc = "upsert" THEN Compose(a, i)
                 ELSE IF ar.h[i].pc = "name_status"
                 THEN Enqueue(named, i, TRUE, FALSE)
                 ELSE Enqueue(named, i, FALSE, TRUE)
    /\ UNCHANGED <<sessionVars, bq, voice, dec, brk, mig, vs, lb, wst, fv, gs, gt, qs, tc, ut>>

\* disconnect takes connect_lock and awaits voice_client.disconnect()
\* (tts.py:709-714)
AR_Leave ==
    /\ ~ar.locked
    /\ ar.nleave < MaxLeaves
    /\ ar' = [ar EXCEPT !.locked = TRUE, !.leaving = TRUE, !.nleave = @ + 1]
    /\ UNCHANGED <<sessionVars, bq, voice, dec, brk, mig, vs, lb, wst, fv, gs, gt, qs, tc, ut>>

\* disconnect clears the session and releases the lock (tts.py:715-720)
AR_Left ==
    /\ ar.leaving
    /\ ar' = [ar EXCEPT !.attached = FALSE, !.locked = FALSE,
                        !.leaving = FALSE, !.last_speaker_id = NoSpeaker]
    /\ UNCHANGED <<sessionVars, bq, voice, dec, brk, mig, vs, lb, wst, fv, gs, gt, qs, tc, ut>>

\* --------------------------------------- cogs/webui.py: POST /api/tts
\* One request.  tc.channels is guild.voice_channels in the guild's order,
\* each with the number of its non-bot and bot members (channel.members
\* holds both); tc.explicit is the channel_id of the payload (0: absent,
\* GuildChannels + 1: no voice channel of the guild), tc.attached the
\* channel of a connected state.voice_client (0: none).  The answer is
\* tc.status, tc.target the channel handed to ensure_connected, tc.enq
\* whether a QueueItem was put.
MemberCounts == [humans : 0..1, bots : 0..1]

NewTarget(channels, explicit, attached) ==
    [channels |-> channels, explicit |-> explicit, attached |-> attached,
     pc |-> "idle", target |-> 0, status |-> 0, enq |-> FALSE]

\* "for channel in guild.voice_channels: if len(channel.members) > 0",
\* webui.py:2170-2173
FirstWithMembers(channels) ==
    LET S == {c \in 1..Len(channels) :
                  channels[c].humans + channels[c].bots > 0}
    IN  IF S = {} THEN 0 ELSE CHOOSE c \in S : \A d \in S : c <= d

\* "Determine target channel", webui.py:2152-2179: 0 when the request is
\* answered 400
TargetChannel(t) ==
    IF t.explicit # 0
    THEN IF t.explicit \in 1..Len(t.channels) THEN t.explicit ELSE 0
    ELSE IF t.attached # 0 THEN t.attached
    ELSE FirstWithMembers(t.channels)

\* api_tts_speak up to "await tts_cog.ensure_connected" (webui.py:2152-
\* 2182), which returns at once when the session is attached: True on the
\* same channel, False on another
TC_Call ==
    /\ tc.pc = "idle"
    /\ LET target == TargetChannel(tc)
           t == [tc EXCEPT !.target = target]
       IN  tc' = IF target = 0 THEN [t EXCEPT !.pc = "done", !.status = 400]
                 ELSE IF tc.attached = 0 THEN [t EXCEPT !.pc = "connecting"]
                 ELSE IF tc.attached = target
                 THEN [t EXCEPT !.pc = "done", !.status = 200, !.enq = TRUE]
                 ELSE [t EXCEPT !.pc = "done", !.status = 409]
    /\ UNCHANGED <<sessionVars, bq, voice, dec, brk, mig, vs, lb, wst, fv, gs, gt, qs, ar, ut>>

\* ensure_connected returns from the connect: the item is put and 200
\* answered, or 409 (webui.py:2182-2206)
TC_Connected(ok) ==
    /\ tc.pc = "connecting"
    /\ tc' = IF ok
             THEN [tc EXCEPT !.pc = "done", !.status = 200, !.enq = TRUE]
             ELSE [tc EXCEPT !.pc = "done", !.status = 409]
    /\ UNCHANGED <<sessionVars, bq, voice, dec, brk, mig, vs, lb, wst, fv, gs, gt, qs, ar, ut>>

\* ------------------------------------------------------------ specification
SessionInit ==
    /\ state = InitState
    /\ queue = <<>>
    /\ connect_lock = [locked |-> FALSE, waiters |-> <<>>]
    /\ workers = <<>>
    /\ guild_vc = 0
    /\ clients = <<>>
    /\ now = 1
    /\ tasks = [p \in Tasks |-> IdleTask]
    /\ botLeftEvt = FALSE
    /\ nEnq = 0
    /\ sinkLog = <<>>
    /\ skipped = {}

\* the pure computations at rest
QueueIdle == bq = NewQueue(0)

VoiceIdle ==
    voice = [phase |-> "idle",
             settings |-> [default_voice_id |-> None, fallback_voice |-> None,
                           restrict_voices |-> FALSE, allowed_voice_ids |-> {}],
             requested |-> None, allow_default |-> TRUE, result |-> <<>>]

DecodeIdle == dec = [NewDecode("null", <<>>, <<>>) EXCEPT !.phase = "idle"]

BreakerIdle == brk = NewBreaker("tiktok")

MigrateIdle ==
    mig = NewMigrate(None, None, [u \in Users |-> <<>>], {})

PresenceIdle == vs = NewPresence(TRUE, 0)

LogIdle == lb = NewLogBuffer

StreamIdle == wst = NewSocket

FailedIdle == fv = NewFailedVoices

SettingsIdle == gs = NewStore(<<>>)

StreamCallIdle == gt = NewStreamCalls

ProducerIdle == qs = NewStream("play_tts", "google", 0, FALSE)

AutoReadIdle == ar = NewAutoRead

TargetIdle == tc = NewTarget(<<>>, 0, 0)

\* every pure computation at rest but the one a specification is about

PureIdleBut(own) ==
    /\ IF own = "bq" THEN TRUE ELSE QueueIdle
    /\ IF own = "voice" THEN TRUE ELSE VoiceIdle
    /\ IF own = "dec" THEN TRUE ELSE DecodeIdle
    /\ IF own = "brk" THEN TRUE ELSE BreakerIdle
    /\ IF own = "mig" THEN TRUE ELSE MigrateIdle
    /\ IF own = "vs" THEN TRUE ELSE PresenceIdle
    /\ IF own = "lb" THEN TRUE ELSE LogIdle
    /\ IF own = "wst" THEN TRUE ELSE StreamIdle
    /\ IF own = "fv" THEN TRUE ELSE FailedIdle
    /\ IF own = "gs" THEN TRUE ELSE SettingsIdle
    /\ IF own = "gt" THEN TRUE ELSE StreamCallIdle
    /\ IF own = "qs" THEN TRUE ELSE ProducerIdle
    /\ IF own = "ar" THEN TRUE ELSE AutoReadIdle
    /\ IF own = "tc" THEN TRUE ELSE TargetIdle
    /\ IF own = "ut" THEN TRUE ELSE NotHeard

Init == SessionInit /\ PureIdleBut("none")

\* a new asyncio.Queue(maxsize=m), for every m up to QUEUE_MAXSIZE
InitQueue ==
    /\ SessionInit /\ PureIdleBut("bq")
    /\ \E m \in 0 .. QUEUE_MAXSIZE : bq = NewQueue(m)

\* Attachment: the health loop and the voice-state event handler (auto-follow,
\* auto-leave, the move of auto-follow, the bot-left event) call
\* ensure_connected and disconnect against each other, with the platform and
\* the clock in cooldowns.
AttachNext ==
    \/ \E p \in Tasks, c \in Channels : StartAutoJoin(p, c)
    \/ \E p \in Tasks, r \in {"alone", "auto_join_move"} :
          StartDisconnect(p, r)
    \/ \E p \in Tasks : DeliverBotLeft(p)
    \/ \E p \in Tasks : HealthTick(p)
    \/ \E p \in Tasks : Finish(p)
    \/ \E p \in Tasks : EC_Acquire(p)
    \/ \E p \in Tasks : EC_ConnDone(p)
    \/ \E p \in Tasks : EC_DiscDone(p)
    \/ \E p \in Tasks : EC_SleepDone(p)
    \/ \E p \in Tasks : DC_Acquire(p)
    \/ \E p \in Tasks : DC_VcDiscDone(p)
    \/ \E p \in Tasks : DC_StopDone(p)
    \/ \E w \in DOMAIN workers : W_Dequeue(w)
    \/ TickCooldown
    \/ PlatformKick
    \/ PlatformLost
    \/ PlatformResume

\* Connect cooldown: the event handler alone calls ensure_connected and
\* disconnect, one call after the other, with the clock in seconds.
CooldownNext ==
    \/ \E p \in Tasks, c \in Channels : StartAutoJoin(p, c)
    \/ \E p \in Tasks, r \in {"alone"} : StartDisconnect(p, r)
    \/ \E p \in Tasks : Finish(p)
    \/ \E p \in Tasks : EC_ConnDone(p)
    \/ \E p \in Tasks : EC_DiscDone(p)
    \/ \E p \in Tasks : EC_SleepDone(p)
    \/ \E p \in Tasks : DC_VcDiscDone(p)
    \/ \E p \in Tasks : DC_StopDone(p)
    \/ \E w \in DOMAIN workers : W_Dequeue(w)
    \/ Tick
    \/ PlatformKick
    \/ PlatformLost
    \/ PlatformResume

\* Utterances: the requests that enqueue (chat auto-read, /tts, the control
\* plane) from one channel, greetings and farewells, /leave and auto-leave,
\* the worker, and the clock in cooldowns.
WorkerNext ==
    \/ \E p \in Tasks, c \in SpeakChannels : StartTts(p, c)
    \/ \E p \in Tasks : TtsFinish(p)
    \/ \E p \in Tasks : Finish(p)
    \/ \E p \in Tasks, r \in {"slash_leave", "alone"} : StartDisconnect(p, r)
    \/ \E p \in Tasks : StartGreet(p)
    \/ \E p \in Tasks : GreetFinish(p)
    \/ \E p \in Tasks : StartFarewell(p)
    \/ \E p \in Tasks : FarewellFinish(p)
    \/ \E p \in Tasks : EC_Acquire(p)
    \/ \E p \in Tasks : EC_ConnDone(p)
    \/ \E p \in Tasks : DC_Acquire(p)
    \/ \E p \in Tasks : DC_VcDiscDone(p)
    \/ \E p \in Tasks : DC_StopDone(p)
    \/ \E w \in DOMAIN workers : W_Dequeue(w)
    \/ \E w \in DOMAIN workers : W_Fetch(w)
    \/ \E w \in DOMAIN workers : W_PlaybackDone(w)
    \/ TickCooldown

\* every settings record, requested voice and allow_default of the bounds
InitVoice ==
    /\ SessionInit /\ PureIdleBut("voice")
    /\ \E d \in SettingVoices, f \in SettingVoices, rv \in BOOLEAN,
          al \in SUBSET AllowedItems, ad \in BOOLEAN,
          rq \in {None} \cup {Some(str) : str \in StringsUpTo(MaxIdLen)} :
          voice = [phase |-> "args",
                   settings |-> [default_voice_id |-> d, fallback_voice |-> f,
                                 restrict_voices |-> rv,
                                 allowed_voice_ids |-> al],
                   requested |-> rq, allow_default |-> ad, result |-> <<>>]

VoiceNext == VoiceResolve \/ VoiceAgain

\* voices and allowed_voice_ids lists a caller sends to validate_settings
RawVoices ==
    {<<"en_us_001">>, <<"en_us_ghostface">>, <<"en_us_c3po">>,
     <<SP, "en_us_c3po">>}

\* the voices a caller of the resolver asks for
AskedVoices ==
    {None, Some(<<>>), Some(<<SP>>), Some(<<"en_us_001", SP>>)}
        \cup {Some(v) : v \in RawVoices}

RECURSIVE ListsUpTo(_)
ListsUpTo(n) ==
    IF n = 0 THEN {<<>>}
    ELSE LET shorter == ListsUpTo(n - 1)
         IN  shorter \cup {Append(l, v) : l \in shorter, v \in RawVoices}

\* the resolver on every record validate_settings accepts and returns
InitVoiceValid ==
    /\ SessionInit /\ PureIdleBut("voice")
    /\ \E d \in RawVoices, f \in RawVoices, rv \in BOOLEAN,
          al \in ListsUpTo(MaxAllowed), ad \in BOOLEAN, rq \in AskedVoices :
          LET cleaned == Merged(DEFAULT_SETTINGS,
                            [NoPatch EXCEPT !.default_voice_id = Some(d),
                                            !.fallback_voice = Some(f),
                                            !.restrict_voices = Some(rv),
                                            !.allowed_voice_ids = Some(al)])
          IN  /\ ~Invalid(cleaned)
              /\ voice =
                   [phase |-> "args",
                    settings |->
                       [default_voice_id |-> Some(cleaned.default_voice_id),
                        fallback_voice |-> Some(cleaned.fallback_voice),
                        restrict_voices |-> cleaned.restrict_voices,
                        allowed_voice_ids |->
                           Range(cleaned.allowed_voice_ids)],
                    requested |-> rq, allow_default |-> ad, result |-> <<>>]

\* every body of the bounds, to be cut into chunks in every way
InitDecode ==
    /\ SessionInit /\ PureIdleBut("dec")
    /\ \E kind \in {"valid", "truncated", "null"}, keys \in OtherKeys,
          m \in MsgsUpTo(MaxMsgLen) :
          /\ kind = "null" => m = <<>>
          /\ dec = NewDecode(kind, keys, m)

DecodeNext ==
    \/ \E n \in 1 .. Len(dec.resp) : DecodeChunk(n)
    \/ DecodeEof

\* producers and one consumer on a bounded queue
QueueNext ==
    \/ \E item \in QItems, policy \in Policies : QEnqueue(item, policy)
    \/ QGet
    \/ QTaskDone

\* either breaker of circuit_breakers, under two concurrent callers
InitBreaker ==
    /\ SessionInit /\ PureIdleBut("brk")
    /\ \E name \in Breakers : brk = NewBreaker(name)

BreakerNext ==
    \/ \E c \in Callers : ExecBegin(c) \/ ExecSuccess(c) \/ ExecFailure(c)
    \/ BreakerTick

\* every settings record and every table of user voices, a part of it cached
InitMigrate ==
    /\ SessionInit /\ PureIdleBut("mig")
    /\ \E d \in SettingVoices, f \in SettingVoices,
          db \in [Users -> UserVoices], cached \in SUBSET Users :
          mig = NewMigrate(d, f, db, cached)

MigrateNext ==
    \/ \E d \in SettingVoices : ChangeDefault(d)
    \/ MigrateBegin \/ MigrateDbOld \/ MigrateCacheOld
    \/ MigrateDbNew \/ MigrateCacheNew
    \/ \E u \in Users : GetVoiceBegin(u)
    \/ GetVoiceSelect \/ GetVoiceFill

\* Voice-state events: members join, move and leave; each event has its
\* handler task, which follows an auto-joiner, leaves an empty channel, and
\* meets the other handlers at connect_lock.
InitFollow == SessionInit /\ PureIdleBut("vs") /\ vs = NewPresence(TRUE, MaxEvents)

InitAlone ==
    /\ SessionInit /\ PureIdleBut("vs")
    /\ \E lwa \in BOOLEAN : vs = NewPresence(lwa, MaxAloneEvents)

\* Leaving when alone: two handler tasks at a time
AloneNext ==
    \/ \E p \in AloneTasks, m \in Members, to \in Channels \cup {0} :
          VS_Begin(p, m, to)
    \/ \E p \in AloneTasks : VS_AutoJoin(p)
    \/ \E p \in AloneTasks : VS_AfterMove(p)
    \/ \E p \in AloneTasks : VS_AfterConnect(p)
    \/ \E p \in AloneTasks : VS_Greeted(p)
    \/ \E p \in AloneTasks : VS_CheckShouldLeave(p)
    \/ \E p \in AloneTasks : VS_Left(p)
    \/ \E p \in AloneTasks : EC_Acquire(p)
    \/ \E p \in AloneTasks : EC_ConnDone(p)
    \/ \E p \in AloneTasks : EC_SleepDone(p)
    \/ \E p \in AloneTasks : DC_Acquire(p)
    \/ \E p \in AloneTasks : DC_VcDiscDone(p)
    \/ \E p \in AloneTasks : DC_StopDone(p)
    \/ \E w \in DOMAIN workers : W_Dequeue(w)
    \/ TickCooldown

\* Auto-follow: three handler tasks at a time

FollowNext ==
    \/ \E p \in EvtTasks, m \in Members, to \in Channels \cup {0} :
          VS_Begin(p, m, to)
    \/ \E p \in EvtTasks : VS_AutoJoin(p)
    \/ \E p \in EvtTasks : VS_AfterMove(p)
    \/ \E p \in EvtTasks : VS_AfterConnect(p)
    \/ \E p \in EvtTasks : VS_Greeted(p)
    \/ \E p \in EvtTasks : VS_CheckShouldLeave(p)
    \/ \E p \in EvtTasks : VS_Left(p)
    \/ \E p \in EvtTasks : EC_Acquire(p)
    \/ \E p \in EvtTasks : EC_ConnDone(p)
    \/ \E p \in EvtTasks : EC_SleepDone(p)
    \/ \E p \in EvtTasks : DC_Acquire(p)
    \/ \E p \in EvtTasks : DC_VcDiscDone(p)
    \/ \E p \in EvtTasks : DC_StopDone(p)
    \/ \E w \in DOMAIN workers : W_Dequeue(w)
    \/ TickCooldown

InitLog == SessionInit /\ PureIdleBut("lb") /\ lb = NewLogBuffer

LogNext ==
    \/ LB_Append
    \/ LB_Fanout
    \/ \E s \in Subs : LB_Subscribe(s)
    \/ \E s \in Subs : LB_Get(s)
    \/ \E s \in Subs : LB_Unsubscribe(s)

\* the log buffer under two logging threads; no subscriber leaves
ThreadsNext ==
    \/ \E t \in Threads : LB_Store(t)
    \/ \E t \in Threads : LB_Handoff(t)
    \/ LB_Fanout
    \/ \E s \in Subs : LB_Subscribe(s)
    \/ \E s \in Subs : LB_Get(s)

InitStream == SessionInit /\ PureIdleBut("wst") /\ wst = NewSocket

StreamNext ==
    \/ \E kind \in {"ok", "bad"} : WS_Text(kind)
    \/ WS_Joined
    \/ WS_Close
    \/ WS_Closed
    \/ \E j \in 1..MaxFrames : J_Cancelled(j)
    \/ \E j \in 1..MaxFrames, ok \in BOOLEAN : J_Opened(j, ok)
    \/ \E j \in 1..MaxFrames : J_Chunk(j)
    \/ \E j \in 1..MaxFrames : J_Eof(j)
    \/ \E j \in 1..MaxFrames, ok \in BOOLEAN : J_End(j, ok)

InitFailed == SessionInit /\ PureIdleBut("fv") /\ fv = NewFailedVoices

FailedNext == VF_Get \/ VF_Failed \/ VF_Success \/ VF_Tick

InitSettings ==
    /\ SessionInit /\ PureIdleBut("gs")
    /\ \E row \in {<<>>, <<RowOf([DEFAULT_SETTINGS EXCEPT
                                      !.max_tts_chars = 250])>>} :
          gs = NewStore(row)

SettingsNext ==
    \/ \E c \in SettingsCallers : GS_Call(c, "get", NoPatch)
    \/ \E c \in SettingsCallers, patch \in Patches :
          GS_Call(c, "update", patch)
    \/ \E c \in SettingsCallers : GS_Acquire(c)
    \/ \E c \in SettingsCallers : GS_Selected(c)
    \/ \E c \in SettingsCallers : GS_Ensured(c)
    \/ \E c \in SettingsCallers : GS_Upserted(c)

\* earlier calls have left the breakers with no failure or one short of
\* their thresholds, and the voice with no entry or one failure short
InitTts ==
    /\ SessionInit /\ PureIdleBut("gt")
    /\ \E t \in {0, TIKTOK_THRESHOLD - 1}, g \in {0, GOOGLE_THRESHOLD - 1},
          f \in {0, VOICE_FAILURE_THRESHOLD - 1} :
          gt = [NewStreamCalls EXCEPT
                   !.breakers["tiktok"].failures = t,
                   !.breakers["google"].failures = g,
                   !.status.present = f > 0,
                   !.status.failures = f]

\* one stream from the return of get_tts_stream to the end of its producer,
\* its caller and its reader
InitProducer ==
    /\ SessionInit /\ PureIdleBut("qs")
    /\ \E kind \in StreamKinds, provider \in Breakers,
          left \in 0..StreamChunks, suspended \in BOOLEAN :
          /\ kind = "play_tts" => ~suspended
          /\ qs = NewStream(kind, provider, left, suspended)

ProducerNext ==
    \/ P_Step
    \/ C_Step
    \/ R_Get
    \/ R_Return
    \/ X_Prepared
    \/ X_Cancel
    \/ \E evt \in {"chunk", "eof", "error"}, n \in 0..MaxChunkLen :
          N_Event(evt, n)

\* chat messages of two members, with a disconnect in between
InitAutoRead ==
    /\ SessionInit /\ PureIdleBut("ar")
    /\ ar = NewAutoRead

AutoReadNext ==
    \/ \E author \in Members, kind \in MessageKinds : AR_Message(author, kind)
    \/ \E i \in 1..MaxMessages : AR_Ensure(i)
    \/ \E i \in 1..MaxMessages, ok \in BOOLEAN : AR_Connected(i, ok)
    \/ AR_DbDone
    \/ AR_Leave
    \/ AR_Left

\* one POST /api/tts for every population of the guild's voice channels
InitTarget ==
    /\ SessionInit /\ PureIdleBut("tc")
    /\ \E channels \in [1..GuildChannels -> MemberCounts],
          explicit \in 0..(GuildChannels + 1), attached \in 0..GuildChannels :
          tc = NewTarget(channels, explicit, attached)

TargetNext ==
    \/ TC_Call
    \/ \E ok \in BOOLEAN : TC_Connected(ok)

TtsNext ==
    \/ \E v \in RequestVoices, fb \in FallbackVoices : GT_Call(v, fb)
    \/ \E outcome \in {"ok", "http5xx", "error"} : GT_Attempt(outcome)
    \/ GT_Tick

\* the store with invalidate: the cache is dropped and the next get reads
\* the row again, as after a restart
DurableNext ==
    \/ SettingsNext
    \/ \E c \in SettingsCallers : GS_Call(c, "invalidate", NoPatch)

\* a session attached to channel 1 by a request served at time 1, its worker
\* idle: the state in which /leave is given
InitLeave ==
    /\ SessionInit!2 /\ SessionInit!3 /\ SessionInit!7 /\ SessionInit!8
    /\ SessionInit!9 /\ SessionInit!10 /\ SessionInit!11 /\ SessionInit!12
    /\ state = [InitState EXCEPT !.voice_client = 1, !.voice_channel_id = 1,
                                 !.last_voice_channel_id = 1, !.worker = 1,
                                 !.last_connect_attempt = 1]
    /\ workers = <<IdleWorker>>
    /\ guild_vc = 1
    /\ clients = <<[conn |-> TRUE, chan |-> 1]>>
    /\ PureIdleBut("none")

\* Explicit leave: one /leave against the health loop and the bot-left
\* event, with the platform and the clock in cooldowns; no request and no
\* auto-follow calls ensure_connected.
LeaveNext ==
    \/ \E p \in Tasks : StartDisconnect(p, "slash_leave")
    \/ \E p \in Tasks : LeaveFinish(p)
    \/ \E p \in Tasks : DeliverBotLeft(p)
    \/ \E p \in Tasks : HealthTick(p)
    \/ \E p \in Tasks \ {"req"} : Finish(p)
    \/ \E p \in Tasks : EC_Acquire(p)
    \/ \E p \in Tasks : EC_ConnDone(p)
    \/ \E p \in Tasks : EC_DiscDone(p)
    \/ \E p \in Tasks : EC_SleepDone(p)
    \/ \E p \in Tasks : DC_Acquire(p)
    \/ \E p \in Tasks : DC_VcDiscDone(p)
    \/ \E p \in Tasks : DC_StopDone(p)
    \/ \E w \in DOMAIN workers : W_Dequeue(w)
    \/ TickCooldown
    \/ PlatformKick
    \/ PlatformLost
    \/ PlatformResume

\* Requests: /tts, chat auto-read and POST /api/tts from either channel, one
\* after the other, against auto-leave and the clock in cooldowns; the
\* worker takes what is queued.
RequestNext ==
    \/ \E p \in Tasks, k \in RequestKinds, c \in Channels :
          StartRequest(p, k, c)
    \/ \E p \in Tasks : RequestAnswer(p)
    \/ \E p \in Tasks : StartDisconnect(p, "alone")
    \/ \E p \in Tasks \ {"req"} : Finish(p)
    \/ \E p \in Tasks : EC_Acquire(p)
    \/ \E p \in Tasks : EC_ConnDone(p)
    \/ \E p \in Tasks : DC_VcDiscDone(p)
    \/ \E p \in Tasks : DC_StopDone(p)
    \/ \E w \in DOMAIN workers : W_Dequeue(w)
    \/ TickCooldown

\* patches of the voice settings: blank-padded, blank, repeated and missing
\* voices, with and without restrict_voices
SchemaPatches ==
    { [NoPatch EXCEPT !.restrict_voices = Some(TRUE)],
      [NoPatch EXCEPT !.allowed_voice_ids =
            Some(<< <<SP, "en_us_c3po">>, <<"en_us_c3po">>, <<SP>> >>)],
      [NoPatch EXCEPT !.allowed_voice_ids = Some(<<>>)],
      [NoPatch EXCEPT !.fallback_voice = Some(<<SP>>)],
      [NoPatch EXCEPT !.default_voice_id = Some(<<"en_us_c3po", SP>>)],
      [NoPatch EXCEPT !.default_voice_id = Some(<<>>),
                      !.restrict_voices = Some(FALSE)],
      [NoPatch EXCEPT !.fallback_voice = Some(<<"en_us_c3po">>),
                      !.default_voice_id = Some(<<"en_us_c3po">>)],
      [NoPatch EXCEPT !.max_tts_chars = 2001] }

\* the store under patches of the voice settings
SchemaNext ==
    \/ \E c \in SettingsCallers : GS_Call(c, "get", NoPatch)
    \/ \E c \in SettingsCallers, patch \in SchemaPatches :
          GS_Call(c, "update", patch)
    \/ \E c \in SettingsCallers : GS_Acquire(c)
    \/ \E c \in SettingsCallers : GS_Selected(c)
    \/ \E c \in SettingsCallers : GS_Ensured(c)
    \/ \E c \in SettingsCallers : GS_Upserted(c)

\* Adoption: one user's requests and /leave, one after the other, while the
\* voice connection drops and comes back; the worker takes what is queued.
AdoptNext ==
    \/ \E p \in Tasks, k \in RequestKinds, c \in Channels :
          StartRequest(p, k, c)
    \/ \E p \in Tasks : RequestAnswer(p)
    \/ \E p \in Tasks : StartDisconnect(p, "slash_leave")
    \/ \E p \in Tasks : Finish(p)
    \/ \E p \in Tasks : EC_ConnDone(p)
    \/ \E p \in Tasks : EC_DiscDone(p)
    \/ \E p \in Tasks : EC_SleepDone(p)
    \/ \E p \in Tasks : DC_VcDiscDone(p)
    \/ \E p \in Tasks : DC_StopDone(p)
    \/ \E w \in DOMAIN workers : W_Dequeue(w)
    \/ TickCooldown
    \/ PlatformLost
    \/ PlatformResume

\* the attached session under /leave, drops of the connection and the
\* health loop
LockedNext ==
    \/ \E p \in Tasks : HealthTick(p)
    \/ \E p \in Tasks : StartDisconnect(p, "slash_leave")
    \/ \E p \in Tasks : Finish(p)
    \/ \E p \in Tasks : EC_Acquire(p)
    \/ \E p \in Tasks : EC_ConnDone(p)
    \/ \E p \in Tasks : EC_DiscDone(p)
    \/ \E p \in Tasks : EC_SleepDone(p)
    \/ \E p \in Tasks : DC_Acquire(p)
    \/ \E p \in Tasks : DC_VcDiscDone(p)
    \/ \E p \in Tasks : DC_StopDone(p)
    \/ \E w \in DOMAIN workers : W_Dequeue(w)
    \/ TickCooldown
    \/ PlatformLost
    \/ PlatformResume

\* a session attached to channel 1 with its worker waiting; the channel of
\* each put is recorded
InitPlayed ==
    /\ SessionInit!2 /\ SessionInit!3 /\ SessionInit!7 /\ SessionInit!8
    /\ SessionInit!9 /\ SessionInit!10 /\ SessionInit!11 /\ SessionInit!12
    /\ state = [InitState EXCEPT !.voice_client = 1, !.voice_channel_id = 1,
                                 !.last_voice_channel_id = 1, !.worker = 1,
                                 !.last_connect_attempt = 1]
    /\ workers = <<IdleWorker>>
    /\ guild_vc = 1
    /\ clients = <<[conn |-> TRUE, chan |-> 1]>>
    /\ PureIdleBut("ut")
    /\ ut = [on |-> TRUE, at |-> <<>>]

\* Playback: requests for either channel, one after the other, against
\* auto-leave; the worker plays what is queued.
PlayedNext ==
    \/ \E p \in Tasks, k \in RequestKinds, c \in Channels :
          StartRequest(p, k, c)
    \/ \E p \in Tasks : RequestAnswer(p)
    \/ \E p \in Tasks : StartDisconnect(p, "alone")
    \/ \E p \in Tasks \ {"req"} : Finish(p)
    \/ \E p \in Tasks : EC_Acquire(p)
    \/ \E p \in Tasks : EC_ConnDone(p)
    \/ \E p \in Tasks : DC_VcDiscDone(p)
    \/ \E p \in Tasks : DC_StopDone(p)
    \/ \E w \in DOMAIN workers : W_Dequeue(w)
    \/ \E w \in DOMAIN workers : W_Fetch(w)
    \/ \E w \in DOMAIN workers : W_PlaybackDone(w)
    \/ TickCooldown

\* a session attached to channel 1, where member m2 sits, its worker
\* waiting; member m1 sits in channel 2
InitOccupied ==
    /\ SessionInit!2 /\ SessionInit!3 /\ SessionInit!7 /\ SessionInit!8
    /\ SessionInit!9 /\ SessionInit!10 /\ SessionInit!11 /\ SessionInit!12
    /\ state = [InitState EXCEPT !.voice_client = 1, !.voice_channel_id = 1,
                                 !.last_voice_channel_id = 1, !.worker = 1,
                                 !.last_connect_attempt = 1]
    /\ workers = <<IdleWorker>>
    /\ guild_vc = 1
    /\ clients = <<[conn |-> TRUE, chan |-> 1]>>
    /\ PureIdleBut("vs")
    /\ vs = [NewPresence(TRUE, MaxHealthEvents) EXCEPT !.at["m2"] = 1,
                                                      !.at["m1"] = 2]

\* Leaving when alone against requests: member m2 moves, two handler tasks
\* at a time, and /tts is given for either channel, with the worker and the
\* clock in cooldowns.
OccupiedNext ==
    \/ \E p \in AloneTasks, to \in Channels \cup {0} :
          VS_Begin(p, "m2", to)
    \/ \E p \in AloneTasks : VS_AutoJoin(p)
    \/ \E p \in AloneTasks : VS_Greeted(p)
    \/ \E p \in AloneTasks : VS_CheckShouldLeave(p)
    \/ \E p \in AloneTasks : VS_Left(p)
    \/ \E p \in Tasks, c \in Channels : StartRequest(p, "slash_tts", c)
    \/ \E p \in Tasks : RequestAnswer(p)
    \/ \E p \in Tasks : EC_Acquire(p)
    \/ \E p \in Tasks : EC_ConnDone(p)
    \/ \E p \in Tasks : DC_Acquire(p)
    \/ \E p \in Tasks : DC_VcDiscDone(p)
    \/ \E p \in Tasks : DC_StopDone(p)
    \/ \E w \in DOMAIN workers : W_Dequeue(w)
    \/ TickCooldown

\* a session attached to channel 1, where member m2 sits; the worker has
\* taken the one utterance put so far and is fetching its audio
InitHealth ==
    /\ SessionInit!2 /\ SessionInit!3 /\ SessionInit!7 /\ SessionInit!8
    /\ SessionInit!9 /\ SessionInit!11 /\ SessionInit!12
    /\ nEnq = 1
    /\ state = [InitState EXCEPT !.voice_client = 1, !.voice_channel_id = 1,
                                 !.last_voice_channel_id = 1, !.worker = 1,
                                 !.last_connect_attempt = 1]
    /\ workers = <<[pc |-> "fetch", item |-> 1, vc |-> 1]>>
    /\ guild_vc = 1
    /\ clients = <<[conn |-> TRUE, chan |-> 1]>>
    /\ PureIdleBut("vs")
    /\ vs = [NewPresence(TRUE, MaxHealthEvents) EXCEPT !.at["m2"] = 1]

\* The loop runs what is ready first: a worker whose queue.get can return
\* and a disconnect whose worker has ended run before a timer fires or a
\* new event is dispatched.
Settled ==
    /\ Quiet
    /\ \A w \in DOMAIN workers : workers[w].pc = "idle" => queue = <<>>
    /\ \A p \in Tasks : tasks[p].pc = "dc_stop" => WorkerAlive(tasks[p].ref)

\* Health: the platform takes the bot out of voice; the bot-left event, the
\* health loop and the members' events follow, with the worker and the
\* clock in cooldowns.
HealthNext ==
    \/ Settled /\ PlatformKick
    \/ \E p \in Tasks : DeliverBotLeft(p)
    \/ \E p \in Tasks : Settled /\ HealthPass(p)
    \/ \E p \in Tasks : tasks[p].op \in {"health", "botleft"} /\ Finish(p)
    \/ \E p \in AloneTasks, m \in Members, to \in Channels \cup {0} :
          Settled /\ VS_Begin(p, m, to)
    \/ \E p \in AloneTasks : VS_AutoJoin(p)
    \/ \E p \in AloneTasks : VS_AfterMove(p)
    \/ \E p \in AloneTasks : VS_AfterConnect(p)
    \/ \E p \in AloneTasks : VS_Greeted(p)
    \/ \E p \in AloneTasks : VS_CheckShouldLeave(p)
    \/ \E p \in AloneTasks : VS_Left(p)
    \/ \E p \in Tasks : EC_Acquire(p)
    \/ \E p \in Tasks : EC_ConnDone(p)
    \/ \E p \in Tasks : DC_Acquire(p)
    \/ \E p \in Tasks : DC_VcDiscDone(p)
    \/ \E p \in Tasks : DC_StopDone(p)
    \/ \E w \in DOMAIN workers : W_Dequeue(w)
    \/ \E w \in DOMAIN workers : W_Fetch(w)
    \/ \E w \in DOMAIN workers : W_PlaybackDone(w)
    \/ Settled /\ TickCooldown

Next == AttachNext \/ CooldownNext \/ WorkerNext \/ QueueNext \/ VoiceNext
           \/ DecodeNext \/ BreakerNext \/ MigrateNext \/ FollowNext \/ LogNext \/ StreamNext
           \/ FailedNext \/ SettingsNext \/ AloneNext \/ DurableNext
           \/ TtsNext \/ LeaveNext \/ RequestNext \/ SchemaNext
           \/ AdoptNext \/ HealthNext \/ ProducerNext
           \/ AutoReadNext \/ TargetNext \/ LockedNext \/ PlayedNext
           \/ OccupiedNext \/ ThreadsNext

Spec == Init /\ [][Next]_vars

SpecAttach == Init /\ [][AttachNext]_vars

SpecCooldown == Init /\ [][CooldownNext]_vars

SpecWorker == Init /\ [][WorkerNext]_vars

SpecQueue == InitQueue /\ [][QueueNext]_vars

SpecVoice == InitVoice /\ [][VoiceNext]_vars

SpecDecode == InitDecode /\ [][DecodeNext]_vars

SpecBreaker == InitBreaker /\ [][BreakerNext]_vars

SpecMigrate == InitMigrate /\ [][MigrateNext]_vars

SpecFollow == InitFollow /\ [][FollowNext]_vars

SpecAlone == InitAlone /\ [][AloneNext]_vars

SpecLog == InitLog /\ [][LogNext]_vars

SpecThreads == InitLog /\ [][ThreadsNext]_vars

SpecStream == InitStream /\ [][StreamNext]_vars

SpecFailed == InitFailed /\ [][FailedNext]_vars

SpecSettings == InitSettings /\ [][SettingsNext]_vars

SpecDurable == InitSettings /\ [][DurableNext]_vars

SpecTts == InitTts /\ [][TtsNext]_vars

SpecAutoRead == InitAutoRead /\ [][AutoReadNext]_vars

SpecTarget == InitTarget /\ [][TargetNext]_vars

SpecVoiceValid == InitVoiceValid /\ [][VoiceNext]_vars

SpecLocked == InitLeave /\ [][LockedNext]_vars

SpecPlayed == InitPlayed /\ [][PlayedNext]_vars

SpecOccupied == InitOccupied /\ [][OccupiedNext]_vars

SpecProducer ==
    /\ InitProducer /\ [][ProducerNext]_vars
    /\ WF_vars(P_Step) /\ WF_vars(C_Step)
    /\ WF_vars(R_Get) /\ WF_vars(R_Return)
    /\ WF_vars(X_Prepared)
    /\ WF_vars(\E evt \in {"chunk", "eof", "error"}, n \in 0..MaxChunkLen :
                   N_Event(evt, n))

SpecLeave == InitLeave /\ [][LeaveNext]_vars

SpecRequest == Init /\ [][RequestNext]_vars

SpecSchema == InitSettings /\ [][SchemaNext]_vars

SpecAdopt == InitLeave /\ [][AdoptNext]_vars

SpecHealth == InitHealth /\ [][HealthNext]_vars

\* ==================================================================== claims
\* a step in which task p runs the body of ensure_connected (it has the lock)
ECEval(p) ==
    /\ tasks[p].pc \in {"idle", "ec_wait"}
    /\ tasks'[p].pc \in {"ec_ret", "ec_conn", "ec_disc", "ec_sleep"}

\* C1: under any interleaving of ensure_connected, disconnect, health-loop
\* ticks and voice-state events, at most one task is inside connect_lock, at
\* most one voice client of the guild is connected, and an attached session
\* holds exactly that client: the session is never attached to two channels.
C1_SingleAttachment ==
    /\ Cardinality({p \in Tasks : tasks[p].pc \in InLock}) <= 1
    /\ connect_lock.locked <=> \E p \in Tasks : tasks[p].pc \in InLock
    /\ Cardinality({v \in DOMAIN clients : clients[v].conn}) <= 1
    /\ Attached => state.voice_client = guild_vc

\* a task waits for connect_lock while another is connecting or disconnecting
C1_Witness ==
    \E p, q \in Tasks :
        /\ tasks[p].pc \in {"ec_conn", "dc_vcdisc"}
        /\ tasks[q].pc \in {"ec_wait", "dc_wait"}

\* C2: while Attached(c1), ensure_connected(c2), c2 # c1, returns the Locked
\* failure and changes neither the session (voice_client, locked channel, last
\* channel, last speaker, last connect attempt, worker), nor the queue, nor
\* the worker tasks, nor the platform's voice client (the bot is not moved).
C2_LockedNoMutation ==
    [][\A p \in Tasks :
          (ECEval(p) /\ Attached /\ tasks'[p].ch # AttachedChannel)
          => /\ tasks'[p].pc = "ec_ret"
             /\ tasks'[p].ret = "locked"
             /\ UNCHANGED <<state, queue, workers, guild_vc, clients>>]_vars

\* ensure_connected has just returned Locked to a caller aiming elsewhere
C2_Witness ==
    \E p \in Tasks :
        /\ tasks[p].pc = "ec_ret"
        /\ tasks[p].ret = "locked"
        /\ Attached
        /\ tasks[p].ch # AttachedChannel

\* C3 as stated: an ensure_connected call whose body runs less than 5 s after
\* a recorded connect attempt returns the Cooldown failure.
C3_CooldownAlways ==
    [][\A p \in Tasks :
          (/\ ECEval(p)
           /\ state.last_connect_attempt # 0
           /\ now - state.last_connect_attempt < CONNECT_COOLDOWN)
          => tasks'[p].ret = "cooldown"]_vars

\* C3 amended: ... and that finds the session not attached and no live voice
\* client of the guild, returns the Cooldown failure and starts no connect.
C3_CooldownWhenDetached ==
    [][\A p \in Tasks :
          (/\ ECEval(p)
           /\ state.last_connect_attempt # 0
           /\ now - state.last_connect_attempt < CONNECT_COOLDOWN
           /\ ~Attached
           /\ ~GuildLive)
          => /\ tasks'[p].pc = "ec_ret"
             /\ tasks'[p].ret = "cooldown"
             /\ UNCHANGED <<state, guild_vc, clients>>]_vars

\* a call has been refused by the cooldown, some seconds after the attempt
C3_Witness ==
    \E p \in Tasks :
        /\ tasks[p].pc = "ec_ret"
        /\ tasks[p].ret = "cooldown"
        /\ now > state.last_connect_attempt

\* the utterances among the queued items (the None sentinel is no utterance)
Utterances(q) == SelectSeq(q, LAMBDA x : x # NoneItem)

Played == {sinkLog[k] : k \in DOMAIN sinkLog}

\* C4: utterances are numbered in enqueue order.  The audio sink receives
\* its play calls in that order, one at a time: the k-th call is for a later
\* utterance than every earlier call, every utterance enqueued before it was
\* played before it or abandoned by the worker (none overtaken, none still
\* queued), and no play call is made while a playback is active.
C4_FifoPlayback ==
    /\ \A j, k \in DOMAIN sinkLog : j < k => sinkLog[j] < sinkLog[k]
    /\ \A k \in DOMAIN sinkLog : \A i \in 1 .. (sinkLog[k] - 1) :
          /\ i \in Played \cup skipped
          /\ \A n \in DOMAIN queue : queue[n] # i
    /\ Cardinality({w \in DOMAIN workers : workers[w].pc = "playing"}) <= 1

\* a second utterance is playing and a third, enqueued meanwhile, waits
C4_Witness ==
    /\ Len(sinkLog) = 2
    /\ \E w \in DOMAIN workers : workers[w].pc = "playing"
    /\ Utterances(queue) # <<>>

\* C5: a call of enqueue_with_drop with policy drop_oldest on a full queue
\* (maxsize > 0 items) removes the head only, appends the item at the tail,
\* keeps the length and the order of the other items, and returns
\* (dropped=1, accepted=true); a call on a queue that is not full appends the
\* item and returns (0, true).
C5_DropOldest ==
    [][bq'.calls = bq.calls + 1 =>
          LET full == bq.maxsize > 0 /\ Len(bq.items) >= bq.maxsize IN
          /\ (full /\ bq'.policy = "drop_oldest") =>
                /\ bq'.items = Append(Tail(bq.items), bq'.item)
                /\ Len(bq'.items) = Len(bq.items)
                /\ bq'.ret = [dropped |-> 1, accepted |-> TRUE, exc |-> "none"]
          /\ ~full =>
                /\ bq'.items = Append(bq.items, bq'.item)
                /\ bq'.ret = [dropped |-> 0, accepted |-> TRUE, exc |-> "none"]]_vars

\* the call of sanity_harness.test_queue_drop: a full queue of two, one dropped
C5_Witness ==
    /\ bq.maxsize = 2
    /\ Len(bq.items) = 2
    /\ bq.policy = "drop_oldest"
    /\ bq.ret = [dropped |-> 1, accepted |-> TRUE, exc |-> "none"]

\* C6 as stated: the queue never holds more than QUEUE_MAXSIZE utterances.
C6_QueueBounded == Len(Utterances(queue)) <= QUEUE_MAXSIZE

\* C7 as stated: no error of play_tts ends the worker task.
C7_WorkerSurvives == \A w \in DOMAIN workers : workers[w].pc # "crashed"

\* C8: at most one worker task of the session is active (created and
\* neither returned nor ended by an exception), whatever the interleaving of
\* ensure_connected, disconnect, greetings and farewells.
C8_OneWorker ==
    /\ Cardinality({w \in DOMAIN workers : WorkerAlive(w)}) <= 1
    /\ \A w \in DOMAIN workers : WorkerAlive(w) => state.worker = w

\* a greeting is about to call ensure_worker while disconnect stops the
\* worker, after one worker has already ended
C8_Witness ==
    /\ \E w \in DOMAIN workers : ~WorkerAlive(w)
    /\ \E w \in DOMAIN workers : WorkerAlive(w)
    /\ \E p, q \in Tasks :
          /\ tasks[p].pc \in {"greet_sleep", "farewell"}
          /\ tasks[q].pc \in {"dc_stop", "ec_conn"}

\* C9 as stated: whatever the settings record, the requested voice (absent,
\* empty, blank or any string) and allow_default, the voice id that
\* _effective_voice_id returns is not empty.
C9_ResolverNonEmpty == voice.phase = "done" => voice.result # <<>>

IsPrefix(a, b) == Len(a) <= Len(b) /\ SubSeq(b, 1, Len(a)) = a

\* the decoder has met the closing quote of the body
DecodeClosed == dec.pos >= Len(dec.resp) - 1

NullBody == dec.kind = "null" /\ dec.keys = <<>>

\* the literal null of the body has arrived whole
NullArrived == dec.pos >= Len(dec.resp) - 1

\* C11: for the body {"data":null}, cut into chunks in any way, the decoder
\* feeds no audio byte, never ends without error, fails with no other error
\* than "TikTok returned null audio data", and has failed with it as soon as
\* the literal null has arrived whole.
C11_NullAudio ==
    NullBody =>
        /\ dec.fed = <<>>
        /\ dec.phase # "ok"
        /\ dec.phase = "error" => dec.err = "TikTok returned null audio data"
        /\ NullArrived => dec.phase = "error"

\* the decoder failed with null audio after a chunk that ended inside the
\* literal null
C11_Witness ==
    /\ NullBody
    /\ dec.phase = "error"
    /\ dec.err = "TikTok returned null audio data"
    /\ dec.fed = <<>>
    /\ Len(dec.prefix) \in 9 .. 11

\* the latest threshold completed calls all failed, and reset_timeout has
\* not elapsed since the latest of them began
BreakerOpen ==
    /\ brk.streak >= brk.failure_threshold
    /\ brk.clock < brk.last_fail + brk.reset_timeout

\* caller c begins an execute call in this step
Begins(c) == brk.calls[c].pc = "idle" /\ brk'.calls[c] # brk.calls[c]

\* C12: for each provider breaker, once threshold consecutive calls have
\* failed, a call that begins before reset_timeout seconds have elapsed
\* fails at once with the circuit-open error, runs no func and leaves the
\* breaker as it was; a call that begins when they have elapsed (or with
\* fewer than threshold consecutive failures) runs func; and a success sets
\* failures and open_until to 0.
C12_BreakerOpensAndHeals ==
    [][\A c \in Callers :
        /\ (Begins(c) /\ BreakerOpen) =>
              /\ brk'.calls[c].pc = "idle"
              /\ brk'.calls[c].ret = "open"
              /\ brk'.ncalls = brk.ncalls
              /\ brk'.failures = brk.failures
              /\ brk'.open_until = brk.open_until
        /\ (Begins(c) /\ ~BreakerOpen) => brk'.calls[c].pc = "running"
        /\ (brk.calls[c].pc = "running" /\ brk'.calls[c].ret = "ok") =>
              brk'.failures = 0 /\ brk'.open_until = 0]_vars

\* the breaker opened, refused a call, let a call through after the window
\* and was reset by its success
C12_Witness ==
    /\ brk.refused
    /\ brk.healed
    /\ brk.failures = 0
    /\ brk.open_until = 0
    /\ \E c \in Callers : brk.calls[c].ret = "ok"

\* the change of the default voice has been migrated: _maybe_migrate_default_
\* voice has run to its end on the new settings
Migrated ==
    /\ mig.nchanges > 0
    /\ mig.m.pc = "idle"
    /\ mig.default_by_guild = bot_default_voice(mig.settings)

\* C13 as stated: once the change of default_voice_id from D0 to D1 has been
\* migrated, every user whose voice_id was D0 has the voice
\* user_default(D1) in the database, and in user_voice_cache when the cache
\* holds the user.
C13_MigratesHolders ==
    Migrated =>
        \A u \in mig.holders :
            /\ mig.db[u] = user_default_voice(mig.settings)
            /\ u \in mig.cached =>
                   mig.cache[u] = user_default_voice(mig.settings)

\* handler p ends in this step
Ends(p) == tasks[p].op = "vs" /\ tasks'[p].pc = "idle"

\* ... having called disconnect(guild, "alone")
CalledAlone(p) == tasks[p].pc = "dc_ret" /\ tasks[p].reason = "alone"

\* C14 as stated: with leave_when_alone on, when the handler of the
\* departure of the last non-bot member from the bot's channel ends, it has
\* called disconnect(guild, "alone"), or the session is detached already.
C14_LeavesOnce ==
    [][\A p \in EvtTasks :
        (Ends(p) /\ vs.leave_when_alone /\ vs.ev[p].last)
            => (CalledAlone(p) \/ ~Attached)]_vars

\* handler p runs check_should_leave past get_settings in this step
Checks(p) == tasks[p].pc = "vs_check" /\ tasks'[p] # tasks[p]

\* ... and calls disconnect(guild, "alone") in it
CallsAlone(p) ==
    /\ tasks'[p].reason = "alone"
    /\ tasks'[p].pc \in {"dc_wait", "dc_vcdisc", "dc_stop", "dc_ret"}

\* C14, amended: with leave_when_alone on, the handler of the departure of
\* the last non-bot member calls disconnect(guild, "alone") exactly once if,
\* when its check_should_leave runs, the session's voice client is connected
\* and its channel has no non-bot member, and not at all otherwise; a handler
\* that ends without that check leaves the session detached.
C14_LeavesOnceIfStillAlone ==
    [][\A p \in EvtTasks :
        (vs.leave_when_alone /\ vs.ev[p].last) =>
            /\ Checks(p) =>
                  (CallsAlone(p) <=>
                      /\ Attached
                      /\ Cardinality(NonBotMembers(AttachedChannel)) = 0)
            /\ (Checks(p) /\ ~CallsAlone(p)) => Ends(p)
            /\ CalledAlone(p) => (tasks'[p] = tasks[p] \/ Ends(p))
            /\ Ends(p) =>
                  \/ CalledAlone(p)
                  \/ tasks[p].pc = "vs_check"
                  \/ ~Attached]_vars

\* the handler of a last departure has called disconnect(guild, "alone") and
\* the session is detached
C14_Witness ==
    \E p \in EvtTasks :
        /\ vs.leave_when_alone /\ vs.ev[p].last
        /\ tasks[p].pc = "dc_ret" /\ tasks[p].reason = "alone"
        /\ ~Attached

RingHoldsLatest ==
    /\ Len(lb.lines) = IF lb.napp < MaxLines THEN lb.napp ELSE MaxLines
    /\ \A i \in 1..Len(lb.lines) :
          lb.lines[i] = lb.napp - Len(lb.lines) + i

\* C15: a stalled log-stream subscriber never blocks ingestion: append can
\* always run and the ring holds the line; no subscriber queue exceeds its
\* bound; a line that meets a full queue is dropped for that subscriber, and
\* queued for every subscriber whose queue has room.
C15_LogBackpressure ==
    /\ lb.napp < MaxAppends => ENABLED LB_Append
    /\ RingHoldsLatest
    /\ \A s \in Subs : Len(lb.q[s]) <= MaxQueue
    /\ \A n \in 1..lb.nfan : \A s \in lb.snap[n] :
          /\ s \in lb.room[n] => n \in lb.put[s] /\ n \notin lb.drop[s]
          /\ s \notin lb.room[n] => n \in lb.drop[s] /\ n \notin lb.put[s]

\* a stalled subscriber's queue is full and has dropped a line that another
\* subscriber got, and the ring has wrapped
C15_Witness ==
    /\ lb.napp > MaxLines
    /\ \E s \in Subs, t \in Subs :
          /\ Len(lb.q[s]) = MaxQueue
          /\ lb.drop[s] \cap lb.put[t] # {}

\* the frames sent for job j, in order
FramesOf(j) == SelectSeq(wst.sent, LAMBDA f : f[1] = j)

\* C16 as stated: when a text frame arrives while a job is in flight, that
\* job is cancelled and sends no end frame, and the new frame's job is
\* started: once the handler is past the cancellation, every accepted text
\* frame has its job.
C16_SecondJobRuns ==
    /\ \A j \in wst.superseded :
          \A i \in 1..Len(wst.sent) : wst.sent[i] # <<j, "end">>
    /\ wst.pc # "join" =>
          \A j \in 1..wst.accepted : wst.job[j].pc # "none"

\* the cooldown window of v: 300 seconds from the latest failure of a run of
\* three or more failures in a row
InWindow == fv.since >= 0 /\ fv.clock < fv.since + VOICE_COOLDOWN_DURATION

AfterWindow == fv.since >= 0 /\ fv.clock >= fv.since + VOICE_COOLDOWN_DURATION

\* a step that is a get_tts_stream asking for v
Gets == fv'.ngets = fv.ngets + 1

\* C18 as stated: after 3 failures in a row recorded for v, every
\* get_tts_stream that asks for v within 300 seconds gets fallback_voice,
\* whatever mark_voice_failed, mark_voice_success and get_tts_stream did in
\* between; once the 300 seconds are over a get has v again, with the
\* failure count cleared.
C18_CooldownSubstitutes ==
    [][/\ (Gets /\ InWindow) => fv'.got = "fallback"
       /\ (Gets /\ AfterWindow) => fv'.got = "requested" /\ fv'.failures = 0
      ]_vars

\* the records that were complete committed records of the guild at some
\* time since caller c began its operation
CommittedSince(c) ==
    {gs.hist[k] : k \in gs.proc[c].from..Len(gs.hist)}

\* C19: settings writes are atomic per guild: a get or update that is done
\* returned a record that was the complete committed (validated) record at
\* some time during the call, and the cached record and the stored row are
\* always those of the updates committed so far applied in one serial order.
C19_AtomicSettings ==
    /\ gs.cache # <<>> => gs.cache[1] = gs.serial
    /\ gs.db # <<>> => gs.db[1] = RowOf(gs.serial)
    /\ ~Invalid(gs.serial)
    /\ \A c \in SettingsCallers :
          (gs.proc[c].pc = "done" /\ gs.proc[c].ret = "ok")
              => gs.proc[c].result[1] \in CommittedSince(c)

\* a get that began while an update was under way returned the new record,
\* and two updates have been committed
C19_Witness ==
    /\ Len(gs.hist) >= 3
    /\ \E c \in SettingsCallers :
          /\ gs.proc[c].pc = "done" /\ gs.proc[c].op = "get"
          /\ gs.proc[c].from < Len(gs.hist)
          /\ gs.proc[c].result = <<gs.serial>>
          /\ gs.serial # gs.hist[gs.proc[c].from]

\* caller c's update, whose patch has a key that is not a setting, ends in
\* this step
UnknownKeyUpdateEnds(c) ==
    /\ gs.proc[c].pc # "done"
    /\ gs'.proc[c].pc = "done"
    /\ gs'.proc[c].op = "update"
    /\ gs'.proc[c].patch.bogus # Absent

\* the record get would return: the cached one, else the stored one, else
\* the defaults
Effective(cache, row) ==
    IF cache # <<>> THEN cache[1]
    ELSE IF row # <<>> THEN FromRow(row[1]) ELSE DEFAULT_SETTINGS

\* C20 as stated: an update whose patch has an unknown key fails with
\* UnknownSetting and leaves the cached record and the stored row exactly as
\* they were when it got the lock.
C20_UnknownKeyNoChange ==
    [][\A c \in SettingsCallers :
          UnknownKeyUpdateEnds(c) =>
              /\ gs'.proc[c].ret = "unknown"
              /\ gs'.cache = gs'.proc[c].hadCache
              /\ gs'.db = gs'.proc[c].hadRow]_vars

\* C20, amended: an update whose patch has an unknown key fails with
\* UnknownSetting and applies no key of the patch: the guild's record is
\* the one it was, a record already cached and an existing row are left
\* exactly as they were; for a guild not cached yet the update has loaded
\* that record into the cache (and inserted the default row if there was
\* none) before it failed.
C20_UnknownKeyNoMerge ==
    [][\A c \in SettingsCallers :
          UnknownKeyUpdateEnds(c) =>
              /\ gs'.proc[c].ret = "unknown"
              /\ gs'.cache =
                    <<Effective(gs'.proc[c].hadCache, gs'.proc[c].hadRow)>>
              /\ gs'.db =
                    <<RowOf(Effective(gs'.proc[c].hadCache,
                                      gs'.proc[c].hadRow))>>
              /\ gs'.proc[c].hadCache # <<>> =>
                    gs'.cache = gs'.proc[c].hadCache
              /\ gs'.proc[c].hadRow # <<>> =>
                    gs'.db = gs'.proc[c].hadRow]_vars

\* an update with the unknown key and a valid key has failed on a guild
\* that was not cached and had no row; the valid key was not applied
C20_Witness ==
    \E c \in SettingsCallers :
        /\ gs.proc[c].pc = "done" /\ gs.proc[c].ret = "unknown"
        /\ gs.proc[c].patch.leave_when_alone = 0
        /\ gs.proc[c].hadCache = <<>> /\ gs.proc[c].hadRow = <<>>
        /\ gs.cache = <<DEFAULT_SETTINGS>>
        /\ gs.db = <<RowOf(DEFAULT_SETTINGS)>>

\* a get of caller c ends in this step and returns a record
GetEnds(c) ==
    /\ gs.proc[c].pc # "done" /\ gs'.proc[c].pc = "done"
    /\ gs'.proc[c].op = "get" /\ gs'.proc[c].ret = "ok"

\* C21: settings writes are write-through: the stored row holds every field
\* of the record an update returned and cached, so a get that reads the row
\* again after invalidate returns the record of the updates committed so far.
C21_WriteThrough ==
    [][\A c \in SettingsCallers :
          GetEnds(c) => gs'.proc[c].result = <<gs.serial>>]_vars

\* the contacts of the latest call made on one path
ContactsOn(stage) ==
    SelectSeq(gt.call.contacts, LAMBDA k : k.stage = stage)

\* QueueStream.read on a queue whose first item is None: closed is set and
\* b"" is returned (tts_pipeline.py:123-131)
ReadsEof(stream) == stream # <<>> /\ Head(stream) = "eof"

\* C22: a get_tts_stream call raises exactly when no path opened a stream;
\* it has then closed the stream, so that a reader gets EOF, and the error it
\* raises is the one of the primary path (its last attempt, or the refusal
\* of its breaker), not one of a later fallback attempt.
C22_AllFailSurfacesFirst ==
    gt.call.pc = "done" =>
        /\ gt.call.ret = "raised" <=>
              \A i \in DOMAIN gt.call.contacts : ~gt.call.contacts[i].ok
        /\ gt.call.ret = "raised" =>
              /\ ReadsEof(gt.call.stream)
              /\ gt.call.err.path = "primary"
              /\ gt.call.err.n = Len(ContactsOn("primary"))
        /\ gt.call.ret = "ok" => gt.call.stream = <<>>

\* a call whose primary path, fallback provider and fallback voice all failed
C22_Witness ==
    /\ gt.call.pc = "done" /\ gt.call.ret = "raised"
    /\ Len(ContactsOn("primary")) = MAX_RETRIES + 1
    /\ Len(ContactsOn("google")) = 1
    /\ Len(ContactsOn("fbvoice")) = MAX_RETRIES + 1
    /\ gt.call.last_error.path = "fbvoice"
    /\ ReadsEof(gt.call.stream)

\* the primary path of the latest call has failed: its breaker refused, or
\* its attempts are used up and the last one failed
PrimaryFailed ==
    \/ "primary" \in gt.call.refused
    \/ /\ Len(ContactsOn("primary")) = MAX_RETRIES + 1
       /\ ~ContactsOn("primary")[MAX_RETRIES + 1].ok

GoogleFailed ==
    \/ "google" \in gt.call.refused
    \/ Len(ContactsOn("google")) = 1 /\ ~ContactsOn("google")[1].ok

\* C30: get_tts_stream contacts the providers in a fixed order and stops at
\* the first success: the provider of the (resolved) requested voice, under
\* its breaker, at most three times; then, only for a voice that is not a
\* fallback-provider voice, the fallback provider once under its breaker;
\* then, only if that failed too and the requested voice is not
\* fallback_voice, the requested voice is marked failed and the primary
\* provider is tried with fallback_voice. A request for a fallback-provider
\* voice never contacts the primary provider.
C30_ProviderOrder ==
    LET c == gt.call
        n == Len(c.contacts)
        P == ContactsOn("primary")
        G == ContactsOn("google")
        F == ContactsOn("fbvoice")
        google == is_google_voice(c.requested)
    IN  /\ c.contacts = P \o G \o F
        /\ \A i \in 1..n : c.contacts[i].ok => i = n /\ c.pc = "done"
        /\ (c.pc = "done" /\ c.ret = "ok") <=> (n > 0 /\ c.contacts[n].ok)
        /\ Len(P) <= MAX_RETRIES + 1
        /\ \A i \in DOMAIN P : /\ P[i].provider = BreakerOf(c.requested)
                               /\ P[i].voice = c.requested
        /\ (P # <<>> \/ c.pc = "primary") =>
              ~FailFast(gt.breakers[BreakerOf(c.requested)], c.t0)
                  \/ c.pc \in {"google", "fbvoice", "done"}
        /\ Len(G) <= 1
        /\ (G # <<>> \/ c.pc = "google") =>
              /\ ~google /\ PrimaryFailed
              /\ "google" \notin c.refused
        /\ c.pc = "google" => ~FailFast(gt.breakers["google"], c.t0)
        /\ \A i \in DOMAIN G : G[i].provider = "google" /\ G[i].voice = GoogleVoice
        /\ (F # <<>> \/ c.pc = "fbvoice" \/ c.marked) =>
              /\ ~google /\ c.requested # c.fallback_voice
              /\ PrimaryFailed /\ GoogleFailed
              /\ c.marked
        /\ Len(F) <= MAX_RETRIES + 1
        /\ \A i \in DOMAIN F : /\ F[i].provider = "tiktok"
                               /\ F[i].voice = c.fallback_voice
        /\ google => \A i \in 1..n : c.contacts[i].provider = "google"

\* a call that failed three times on the primary provider and once on the
\* fallback provider, and got its stream with fallback_voice at the second try
C30_Witness ==
    /\ gt.call.pc = "done" /\ gt.call.ret = "ok"
    /\ gt.call.requested = OtherVoice
    /\ Len(ContactsOn("primary")) = MAX_RETRIES + 1
    /\ Len(ContactsOn("google")) = 1
    /\ Len(ContactsOn("fbvoice")) = 2
    /\ gt.call.marked

\* the explicit leave is over: disconnect("slash_leave") returned and the
\* command answered
ExplicitlyLeft ==
    tasks["req"].pc = "left" /\ tasks["req"].ret = "ok"

\* C23: once an explicit leave (disconnect with reason slash_leave) has
\* completed, the session stays detached: no health-loop tick, however it
\* interleaves with the disconnect, attaches the session again (no request
\* and no auto-follow calls ensure_connected in SpecLeave).
C23_LeaveStaysDetached == ExplicitlyLeft => ~Attached

\* request p answers in this step, ensure_connected having returned ret
Answers(p, ret) ==
    /\ tasks[p].pc = "ec_ret"
    /\ tasks[p].op \in RequestKinds
    /\ tasks[p].ret = ret
    /\ tasks'[p].pc = "answered"

\* C24: a request for which ensure_connected failed (locked to another
\* channel, connect cooldown, or a failed connect) enqueues nothing: the
\* queue and the count of items put are unchanged by the handler, /tts
\* answers with the locked message (naming state.voice_channel_id), chat
\* auto-read answers nothing and POST /api/tts answers 409.
C24_FailedRequestEnqueuesNothing ==
    [][\A p \in Tasks : \A ret \in {"locked", "cooldown", "failed"} :
          Answers(p, ret) =>
              /\ queue' = queue
              /\ nEnq' = nEnq
              /\ state' = state
              /\ tasks'[p].reason = RefusalOf(tasks[p].op)
              /\ tasks'[p].ref = state.voice_channel_id]_vars

\* POST /api/tts has been refused for the connect cooldown, utterances of
\* earlier requests still in the queue
C24_Witness ==
    /\ tasks["req"].pc = "answered"
    /\ tasks["req"].ret = "cooldown"
    /\ tasks["req"].reason = "409"
    /\ queue # <<>>
    /\ nEnq > 0

\* the schema of a settings record, as the claim states it
NoDuplicates(seq) ==
    \A i, j \in DOMAIN seq : seq[i] = seq[j] => i = j

SchemaOk(r) ==
    /\ 1 <= r.max_tts_chars /\ r.max_tts_chars <= 2000
    /\ r.fallback_voice # <<>>
    /\ r.default_voice_id # <<>>
    /\ NoDuplicates(r.allowed_voice_ids)
    /\ r.restrict_voices =>
          /\ r.allowed_voice_ids # <<>>
          /\ \E i \in DOMAIN r.allowed_voice_ids :
                r.allowed_voice_ids[i] = r.fallback_voice
          /\ \E i \in DOMAIN r.allowed_voice_ids :
                r.allowed_voice_ids[i] = r.default_voice_id

\* the record caller c found when it got the lock: the cached one, or the
\* row's, or the defaults
FoundBy(c) ==
    IF gs.proc[c].hadCache # <<>> THEN gs.proc[c].hadCache[1]
    ELSE IF gs.proc[c].hadRow # <<>> THEN FromRow(gs.proc[c].hadRow[1])
    ELSE DEFAULT_SETTINGS

\* C25: whatever get and update calls came before, failed or not, every record
\* the settings store returns, and the one it caches, satisfies the schema
\* (max_tts_chars in 1..2000, fallback_voice and default_voice_id non-empty,
\* allowed_voice_ids without duplicates and, under restrict_voices,
\* non-empty and holding both voices); an update of known keys is rejected
\* by validate_settings exactly when the record it would store, cleaned,
\* breaks the schema.
C25_SchemaHolds ==
    /\ gs.cache # <<>> => SchemaOk(gs.cache[1])
    /\ \A c \in SettingsCallers :
          gs.proc[c].pc = "done" =>
              /\ gs.proc[c].result # <<>> => SchemaOk(gs.proc[c].result[1])
              /\ gs.proc[c].op = "update" /\ ~HasUnknownKey(gs.proc[c].patch)
                    => (gs.proc[c].ret = "invalid" <=>
                          ~SchemaOk(Merged(FoundBy(c), gs.proc[c].patch)))

\* under restrict_voices an update of allowed_voice_ids was rejected, the
\* cached record keeping the list it had
C25_Witness ==
    /\ gs.cache # <<>>
    /\ gs.cache[1].restrict_voices
    /\ gs.cache[1].allowed_voice_ids = ALL_VOICE_IDS
    /\ \E c \in SettingsCallers :
          /\ gs.proc[c].pc = "done"
          /\ gs.proc[c].ret = "invalid"
          /\ gs.proc[c].patch.allowed_voice_ids # None

\* ensure_connected, called by p, returns True in this step
ReturnsSuccess(p) ==
    /\ tasks[p].pc # "ec_ret"
    /\ tasks'[p].pc = "ec_ret"
    /\ tasks'[p].ret = "ok"

\* C26: whenever ensure_connected returns success (already attached, a live
\* client of the guild adopted, or a connect completed), the session has an
\* active worker at that moment, so that what is enqueued afterwards is
\* taken from the queue.
C26_SuccessHasWorker ==
    [][\A p \in Tasks : ReturnsSuccess(p) => WorkerAlive(state.worker)']_vars

\* disconnect, called by p, returns in this step
DisconnectReturns(p) ==
    /\ tasks[p].pc # "dc_ret"
    /\ tasks'[p].pc = "dc_ret"
    /\ tasks'[p].ret = "ok"

\* a step of disconnect(reason) called by p
DisconnectSteps(p, reason) ==
    /\ tasks'[p] # tasks[p]
    /\ tasks'[p].pc \in {"dc_wait", "dc_vcdisc", "dc_stop", "dc_ret"}
    /\ tasks'[p].reason = reason

\* C27: when disconnect(reason) returns, voice_client, voice_channel_id (the
\* locked channel) and last_speaker_id are null and no worker is active;
\* last_voice_channel_id is null when the reason is slash_leave or alone,
\* and no step of a disconnect with another reason changes it.
C27_DisconnectPostcondition ==
    [][\A p \in Tasks :
          /\ DisconnectReturns(p) =>
                /\ state'.voice_client = 0
                /\ state'.voice_channel_id = 0
                /\ state'.last_speaker_id = 0
                /\ ~WorkerAlive(state.worker)'
                /\ tasks'[p].reason \in {"slash_leave", "alone"} =>
                      state'.last_voice_channel_id = 0
          /\ \A reason \in {"disconnected", "auto_join_move"} :
                DisconnectSteps(p, reason) =>
                    state'.last_voice_channel_id = state.last_voice_channel_id
      ]_vars

\* ensure_connected, called by p, returns False in this step after a connect
\* (or the reconnect that follows "Already connected") did not succeed
ReturnsFailure(p) ==
    /\ tasks[p].pc \in {"ec_conn", "ec_sleep"}
    /\ tasks'[p].pc = "ec_ret"
    /\ tasks'[p].ret = "failed"

HealthAttempts ==
    /\ tasks["health"].pc \in {"idle", "ec_wait"}
    /\ tasks'["health"].pc \in {"ec_conn", "ec_disc", "ec_sleep"}

\* C28 (its second half): the health loop never attempts a reattach to a
\* channel that holds no non-bot member at the time of the attempt.
C28_NoAttemptToEmptyChannel ==
    [][HealthAttempts => ~Nobody(tasks'["health"].ch)]_vars

\* C31: once get_tts_stream has returned, the producer closes the stream in
\* every outcome (all bytes fed, an error, a cancellation): a producer that
\* has ended has put its None, the producer does end, and a thread inside
\* QueueStream.read always comes out of it, with b"" once the data is
\* read; the reads carry bytes only, the failure is the task's status.
C31_ReaderGetsEof ==
    /\ [](ProducerEnded(qs) => qs.closes = 1)
    /\ <>ProducerEnded(qs)
    /\ (qs.rd.pc = "read") ~> (qs.rd.pc = "idle")
    /\ [](qs.kind = "play_tts" => <>(qs.eofs = 1))

\* a reader got b"" from a stream whose producer was cancelled, and from
\* one whose producer raised
C31_Witness ==
    /\ qs.prod.pc \in {"cancelled", "raised"}
    /\ qs.eofs = 1
    /\ qs.prod.fed > 0

\* C32: in chat auto-read a chat line is put with the "said" prefix exactly
\* when its author differs from last_speaker_id, a status utterance (image,
\* video, link) is never prefixed, last_speaker_id is the author of the
\* item right after each put, and it is null right after every connect and
\* every disconnect.
C32_PrefixIffNewSpeaker ==
    [][/\ ar'.n = ar.n + 1 =>
            /\ ar'.put.status => ~ar'.put.prefixed
            /\ ~ar'.put.status =>
                 (ar'.put.prefixed <=> ar'.put.author # ar.last_speaker_id)
            /\ ar'.last_speaker_id = ar'.put.author
       /\ ar'.attached # ar.attached => ar'.last_speaker_id = NoSpeaker]_vars

\* the first voice channel of the guild holding a non-bot member (0: none)
FirstWithHumans(channels) ==
    LET S == {c \in 1..Len(channels) : channels[c].humans > 0}
    IN  IF S = {} THEN 0 ELSE CHOOSE c \in S : \A d \in S : c <= d

\* the channel the rule names for a request (0: none)
RuledTarget(t) ==
    IF t.explicit # 0
    THEN IF t.explicit \in 1..Len(t.channels) THEN t.explicit ELSE 0
    ELSE IF t.attached # 0 THEN t.attached
    ELSE FirstWithHumans(t.channels)

\* C33: POST /api/tts hands to ensure_connected the explicit channel_id if
\* one is given, else the channel the session is attached to, else the first
\* voice channel holding a non-bot member; a channel holding bots only is
\* never found by the search, and with no channel to target the answer is
\* 400 and nothing is put.
C33_TargetChannelRule ==
    tc.pc # "idle" =>
       /\ tc.target = RuledTarget(tc)
       /\ tc.explicit = 0 /\ tc.attached = 0 /\ tc.target # 0 =>
             tc.channels[tc.target].humans > 0
       /\ RuledTarget(tc) = 0 => tc.status = 400 /\ ~tc.enq

\* C34: on a record validate_settings accepted, with restrict_voices the
\* resolver returns a member of allowed_voice_ids for every requested voice
\* and both values of allow_default; with allow_default false it returns a
\* voice other than default_voice_id whenever the voices are unrestricted or
\* allowed_voice_ids holds a voice other than default_voice_id.
C34_ResolverRespectsAllowed ==
    voice.phase = "done" =>
       LET s == voice.settings
           default_voice == s.default_voice_id[1]
       IN  /\ s.restrict_voices => voice.result \in s.allowed_voice_ids
           /\ /\ ~voice.allow_default
              /\ ~s.restrict_voices \/ s.allowed_voice_ids \ {default_voice} # {}
              => voice.result # default_voice

\* the default voice was asked for with allow_default false, the fallback
\* voice is the default too and the first voice of the catalog is not
\* allowed: another allowed voice was returned
C34_Witness ==
    /\ voice.phase = "done"
    /\ voice.settings.restrict_voices /\ ~voice.allow_default
    /\ voice.settings.fallback_voice = voice.settings.default_voice_id
    /\ voice.requested = voice.settings.default_voice_id
    /\ <<"en_us_ghostface">> \notin voice.settings.allowed_voice_ids
    /\ voice.result # voice.settings.default_voice_id[1]

\* C35: a get_tts_stream call made while the breaker of the primary provider
\* (TikTok) is open sends no request to the primary provider, on any path of
\* the fallback algorithm.
C35_NoPrimaryWhileOpen ==
    gt.call.tiktok_open =>
        \A i \in DOMAIN gt.call.contacts :
            gt.call.contacts[i].provider # "tiktok"

\* C36: whenever the session holds a connected voice client and no
\* ensure_connected or disconnect is inside connect_lock, voice_channel_id
\* (the locked channel) is set and is the id of that client's channel, also
\* after the health loop or ensure_connected adopted a client the platform
\* reports as live.
C36_LockedIsAttached ==
    Attached /\ ~connect_lock.locked =>
        /\ state.voice_channel_id # 0
        /\ state.voice_channel_id = AttachedChannel

\* C37: every utterance handed to the audio sink is played in the channel
\* the session was attached to when the utterance was put in the queue: when
\* play_tts starts playback of an item that was put while the session was
\* attached to a channel, the client it plays on is connected to that
\* channel, whatever disconnects and reattachments came in between.
C37_PlayedWhereEnqueued ==
    [][\A w \in DOMAIN workers :
          /\ workers[w].pc = "fetch"
          /\ workers'[w].pc = "playing"
          /\ ut.at[workers[w].item] # 0
          => clients[workers[w].vc].chan = ut.at[workers[w].item]]_vars

\* C38: every sentinel that disconnect puts is taken by the worker this
\* disconnect awaits: unless a disconnect is inside stop_worker, awaiting
\* the worker, the queue holds no sentinel.
C38_SentinelConsumed ==
    (\A p \in Tasks : tasks[p].pc # "dc_stop") =>
        \A i \in DOMAIN queue : queue[i] # NoneItem

\* C39: a disconnect with reason alone tears the session down only if the
\* bot's channel has no non-bot member when the disconnect runs under
\* connect_lock: the step in which it goes on to disconnect the voice client
\* finds nobody in the channel the session is attached to.
C39_AloneOnlyWhenEmpty ==
    [][\A p \in EvtTasks :
        (/\ tasks[p].pc # "dc_vcdisc"
         /\ tasks'[p].pc = "dc_vcdisc"
         /\ tasks'[p].reason = "alone") => Nobody(AttachedChannel)]_vars

\* the lines of a sequence
LinesOf(q) == {q[i] : i \in DOMAIN q}

\* C40: with append called from several threads, every subscriber receives
\* the lines that are not dropped in the order in which the ring stored
\* them (its queue is in that order, and behind every line it got before),
\* and no line put in a subscriber's queue is also in the initial_lines of
\* its subscription.
C40_OrderedAndOnce ==
    \A s \in Subs :
        /\ \A i, j \in DOMAIN lb.q[s] : i < j => lb.q[s][i] < lb.q[s][j]
        /\ \A n \in lb.put[s] \ LinesOf(lb.q[s]) :
              \A i \in DOMAIN lb.q[s] : n < lb.q[s][i]
        /\ lb.put[s] \cap LinesOf(lb.initial[s]) = {}

====
